---- MODULE Spec2Model ----
(***************************************************************************)
(* Model of alhc's asynchronous bridge between a native, callback-driven   *)
(* HTTP stack and poll-based futures / byte streams.                       *)
(*                                                                         *)
(*   SpecRes    the Windows response stream: Response::poll_read of        *)
(*              windows/mod.rs (revision "status", events delivered        *)
(*              through ctx.status) and WinHTTPResponse::poll_read of      *)
(*              windows/response.rs with windows/callback.rs (revision     *)
(*              "channel", events delivered through an mpsc channel),      *)
(*              together with the native read side of WinHTTP.             *)
(*   SpecReq    the Windows request future: Request::poll of               *)
(*              windows/mod.rs with its body source and the native send    *)
(*              side.  FairSpecReq is the same request with a body source  *)
(*              that is always ready, a fair executor and a native stack   *)
(*              that completes every operation; FairSpecReqBody is the     *)
(*              fair request with a body source that may return Pending    *)
(*              and wakes the task afterwards.                             *)
(*   SpecCli    a Client shared by concurrent callers: the connection      *)
(*              cache of get_or_connect_connection and the reference-      *)
(*              counted native handles.                                    *)
(*   SpecLife   the life of a Windows request handle and of the contexts   *)
(*              registered on it: the drops of Request and Response and    *)
(*              the callbacks still arriving.                              *)
(*   SpecMac    the macOS request with its transfer buffer (macos/         *)
(*              request.rs, rwbuf.rs) and the streams it opens.            *)
(*   SpecRecv   the header parsing of the Windows recv and                 *)
(*              ResponseBody::header.  SpecRecvRaw is the same parsing on  *)
(*              header text that need not be well formed.                  *)
(*   SpecUnix   the Unix request future and the response it builds.        *)
(*   SpecErr    resolve_io_error_from_error_code over numeric codes.       *)
(*   SpecMacRes the macOS response stream: Response::poll_read and the     *)
(*              stream client callback of macos/response.rs and of         *)
(*              macos/mod.rs.                                              *)
(*   SpecExchange  a Windows request followed by the response it resolved  *)
(*              to.                                                        *)
(*   SpecBuffer a ReadWriteBuffer of macos/rwbuf.rs under every sequence   *)
(*              of cursor advances its contract allows.                    *)
(*   SpecRunLoop  threads calling get_or_spawn_http_thread of macOS        *)
(*              concurrently, and the run-loop threads they spawn.         *)
(*                                                                         *)
(* The native stack runs the status callback on its own thread, so a       *)
(* callback may run between any two steps of a poll.  Fields of the        *)
(* NetworkContext are plain memory: a poll is therefore modelled as the    *)
(* sequence of its accesses to the context, and the callback as a step of  *)
(* its own that may be taken between them.                                 *)
(***************************************************************************)
EXTENDS Integers, Sequences, FiniteSets, TLC

(* ------------------------------ bounds --------------------------------- *)
\* capacity of the transfer buffer (windows/mod.rs:67 sets 8 * 1024; the
\* model scales it down so that every chunk size can be enumerated)
BUF_SIZE == 2
\* the native layer delivers at most this many payload bytes
MaxPayload == 3
\* the caller passes buffers of length 1..MaxCallerBuf to poll_read
MaxCallerBuf == 2
\* number of wake-only notifications the native stack may send
MaxNotify == 1
\* the request's body source yields at most this many bytes
MaxBody == 3
\* times the body source may return Pending
MaxStall == 1
\* capacity of the macOS transfer buffer (ReadWriteBuffer<BUFFER_SIZE>)
BUFFER_SIZE == 2
\* header lines the raw headers of a response carry
MaxHeaderLines == 3
\* header values the native response of the Unix backend carries
MaxUnixFields == 3
\* the largest Win32 system error code tried besides the WinHTTP ones
MaxSystemCode == 100
\* callers that make a request on one Client, each from its own thread
NCallers == 2
\* distinct hostnames the callers ask for
NHosts == 2
\* distinct wakers the executor may pass to the polls of one response
NWakers == 2
\* threads that call get_or_spawn_http_thread concurrently
NThreads == 2
\* longest sequence of calls made on a ReadWriteBuffer
MaxBufferCalls == 7
\* polls of a macOS response that are answered with the end of the stream
MaxEofPolls == 2

(* --------------------------- program constants -------------------------- *)
\* usize::MAX, the "read in flight" sentinel of ctx.buf_size, cut down to
\* the integer range of the model checker
USIZE_MAX == 2147483647

Min(a, b) == IF a <= b THEN a ELSE b

\* the k-th byte the native layer delivers is k, so that a byte that is
\* duplicated, dropped or reordered shows in the stream
Payload(n) == [i \in 1..n |-> i]

IsPrefix(s, t) == Len(s) <= Len(t) /\ SubSeq(t, 1, Len(s)) = s

\* the callback slot of the native thread when no callback is running
NoCallback ==
    [ev |-> "none", len |-> 0, code |-> "none", step |-> 0,
     q1 |-> "none", q2 |-> "none"]

\* a native operation a poll has issued: WinHttpSendRequest ("send"),
\* WinHttpWriteData of size bytes ("write"), WinHttpReceiveResponse
\* ("receive"), WinHttpQueryDataAvailable ("query"), WinHttpReadData ("read")
NativeOp(op, size) == [op |-> op, size |-> size]

\* error codes a REQUEST_ERROR completion carries while the handle is open
\* (OPERATION_CANCELLED is what WinHTTP reports after the handle is closed)
RequestErrorCodes == {"TIMEOUT"}

\* resolve_io_error_from_error_code, as far as the model tells kinds apart
resolve_io_error_from_error_code(code) ==
    IF code = "TIMEOUT" THEN "TimedOut" ELSE "Other"

\* codes GetLastError() holds after a native call has returned failure
LastErrorCodes == {"TIMEOUT", "INCORRECT_HANDLE_STATE"}

\* resolve_io_error that does not look at the code
resolve_io_error_other(last_error) == "Other"

\* resolve_io_error(): resolve_io_error_from_error_code(GetLastError())
resolve_io_error(last_error) ==
    resolve_io_error_from_error_code(last_error)

\* a native call of a poll returned failure: the call, its position among
\* the calls of that poll, the last-error code and the error returned
SyncFailure(calls, last_error) ==
    [op |-> calls[Len(calls)], at |-> Len(calls), code |-> last_error,
     err |-> resolve_io_error(last_error)]

VARIABLES
    res,    \* a Response, its NetworkContext, its reader and its native side
    req,    \* a Request, its NetworkContext, its task and its native side
    cli,    \* a Client, its connection cache, its callers and the handles
    life,   \* one request handle, its two contexts and their owners
    mac,    \* a macOS Request, its transfer buffer and its native streams
    hdr,    \* a Windows recv parsing the raw headers of a response
    unx,    \* a Unix request and the response it resolves to
    err,    \* a native error code and the io::Error made of it
    mrs,    \* a macOS Response reading its native stream
    rl,     \* the HTTP run-loop thread of macOS and the threads that ask for it
    rwb     \* a ReadWriteBuffer and the calls made on it

vars == <<res, req, cli, life, mac, hdr, unx, err, mrs, rl, rwb>>

(* ====================== client, cache and handles ====================== *)
(* Fields of cli:                                                          *)
(*   alive        the Client has not been dropped                          *)
(*   lock         the caller holding the `connections` mutex, 0 if free    *)
(*   connections  the HashMap: hostname -> handle, 0 where there is none   *)
(*   created      native handles created so far; they are 1..created       *)
(*   strong       strong count of the Arc<Handle> of each handle           *)
(*   wrapped      handles that have been given to a Handle wrapper         *)
(*   closed       times WinHttpCloseHandle has been called on each handle  *)
(*   calls, fails WinHttpConnect calls made / failed, per hostname         *)
(*   callers      per caller: where it is in Client::request (pc), the     *)
(*                hostname it asked for, its connection and request        *)
(*                handles, and which of its Request and Response are alive *)

Callers == 1..NCallers
Hosts == 1..NHosts
\* each caller opens at most a connection and a request
Handles == 1..(2 * NCallers)

NewClient ==
    [alive |-> TRUE,
     lock |-> 0,
     connections |-> [h \in Hosts |-> 0],
     created |-> 0,
     strong |-> [h \in Handles |-> 0],
     wrapped |-> {},
     closed |-> [h \in Handles |-> 0],
     calls |-> [h \in Hosts |-> 0],
     fails |-> [h \in Hosts |-> 0],
     callers |-> [c \in Callers |->
                    [pc |-> "start", host |-> 0, conn |-> 0, h_request |-> 0,
                     local |-> FALSE, request |-> FALSE, resolved |-> FALSE,
                     response |-> FALSE]]]

\* Arc::new(handle.into()): n owners of a new handle
ArcNew(k, h, n) ==
    [k EXCEPT !.created = h, !.strong[h] = n, !.wrapped = @ \cup {h}]

\* Arc::clone: one more owner
ArcClone(k, h) == [k EXCEPT !.strong[h] = @ + 1]

\* drop of one Arc<Handle>: the last owner runs Handle::drop, which calls
\* WinHttpCloseHandle
ArcDrop(k, h) ==
    [k EXCEPT !.strong[h] = @ - 1,
              !.closed[h] = IF k.strong[h] = 1 THEN @ + 1 ELSE @]

\* CliLock without mutual exclusion: the caller goes on while another
\* caller holds the guard
CliLockNoExclusion(c) ==
    /\ cli.alive /\ cli.callers[c].pc = "start"
    /\ \E host \in Hosts :
         cli' = [cli EXCEPT !.lock = c,
                            !.callers[c].pc = "locked",
                            !.callers[c].host = host]
    /\ UNCHANGED <<res, req, life, mac, hdr, unx, err, mrs, rl, rwb>>

\* get_or_connect_connection: self.connections.lock()
CliLock(c) ==
    /\ cli.alive /\ cli.callers[c].pc = "start"
    /\ cli.lock = 0
    /\ \E host \in Hosts :
         cli' = [cli EXCEPT !.lock = c,
                            !.callers[c].pc = "locked",
                            !.callers[c].host = host]
    /\ UNCHANGED <<res, req, life, mac, hdr, unx, err, mrs, rl, rwb>>

\* CliLookup that never finds an entry
CliLookupMiss(c) ==
    /\ cli.callers[c].pc = "locked"
    /\ cli' = [cli EXCEPT !.callers[c].pc = "connecting"]
    /\ UNCHANGED <<res, req, life, mac, hdr, unx, err, mrs, rl, rwb>>

\* connections.get(hostname).cloned(): on a hit return the clone (the
\* guard is released on return), on a miss go on to connect
CliLookup(c) ==
    /\ cli.callers[c].pc = "locked"
    /\ LET conn == cli.connections[cli.callers[c].host] IN
         IF conn # 0
         THEN cli' = [ArcClone(cli, conn) EXCEPT
                        !.lock = 0,
                        !.callers[c].pc = "opening",
                        !.callers[c].conn = conn,
                        !.callers[c].local = TRUE]
         ELSE cli' = [cli EXCEPT !.callers[c].pc = "connecting"]
    /\ UNCHANGED <<res, req, life, mac, hdr, unx, err, mrs, rl, rwb>>

\* CliConnect that inserts the handle it got even when it is null
CliConnectInsertNull(c) ==
    /\ cli.callers[c].pc = "connecting"
    /\ LET host == cli.callers[c].host
           k == [cli EXCEPT !.calls[host] = @ + 1, !.lock = 0]
           h == cli.created + 1
       IN \/ cli' = [k EXCEPT !.fails[host] = @ + 1,
                              !.connections[host] = h,
                              !.callers[c].pc = "failed"]
          \/ cli' = [ArcNew(k, h, 2) EXCEPT
                        !.connections[host] = h,
                        !.callers[c].pc = "opening",
                        !.callers[c].conn = h,
                        !.callers[c].local = TRUE]
    /\ UNCHANGED <<res, req, life, mac, hdr, unx, err, mrs, rl, rwb>>

\* WinHttpConnect: null => return resolve_io_error(); otherwise wrap the
\* handle, insert a clone under the hostname and return it
CliConnect(c) ==
    /\ cli.callers[c].pc = "connecting"
    /\ LET host == cli.callers[c].host
           k == [cli EXCEPT !.calls[host] = @ + 1, !.lock = 0]
           h == cli.created + 1
       IN \/ cli' = [k EXCEPT !.fails[host] = @ + 1,
                              !.callers[c].pc = "failed"]
          \/ cli' = [ArcNew(k, h, 2) EXCEPT
                        !.connections[host] = h,
                        !.callers[c].pc = "opening",
                        !.callers[c].conn = h,
                        !.callers[c].local = TRUE]
    /\ UNCHANGED <<res, req, life, mac, hdr, unx, err, mrs, rl, rwb>>

\* Client::request after the connection: WinHttpOpenRequest (null => Err),
\* WinHttpSetStatusCallback (invalid => Err, the request handle has no
\* wrapper yet), then the Request owns conn and Arc::new(h_request)
CliOpenRequest(c) ==
    /\ cli.callers[c].pc = "opening"
    /\ LET conn == cli.callers[c].conn
           h == cli.created + 1
           failed == [ArcDrop(cli, conn) EXCEPT
                        !.callers[c].pc = "failed",
                        !.callers[c].local = FALSE]
       IN \/ cli' = failed
          \/ cli' = [failed EXCEPT !.created = h]
          \/ cli' = [ArcNew(cli, h, 1) EXCEPT
                        !.callers[c].pc = "live",
                        !.callers[c].local = FALSE,
                        !.callers[c].request = TRUE,
                        !.callers[c].h_request = h]
    /\ UNCHANGED <<res, req, life, mac, hdr, unx, err, mrs, rl, rwb>>

\* CliResolve with a Response that takes the handles without counting
\* itself as an owner
CliResolveNoClone(c) ==
    /\ cli.callers[c].pc = "live"
    /\ cli.callers[c].request /\ ~cli.callers[c].resolved
    /\ cli' = [cli EXCEPT !.callers[c].resolved = TRUE,
                          !.callers[c].response = TRUE]
    /\ UNCHANGED <<res, req, life, mac, hdr, unx, err, mrs, rl, rwb>>

\* Request::poll, HeadersReceived: the Response takes connection.clone()
\* and h_request.clone()
CliResolve(c) ==
    /\ cli.callers[c].pc = "live"
    /\ cli.callers[c].request /\ ~cli.callers[c].resolved
    /\ cli' = [ArcClone(ArcClone(cli, cli.callers[c].conn),
                        cli.callers[c].h_request) EXCEPT
                 !.callers[c].resolved = TRUE,
                 !.callers[c].response = TRUE]
    /\ UNCHANGED <<res, req, life, mac, hdr, unx, err, mrs, rl, rwb>>

\* the Request is dropped: its connection and h_request are dropped
CliDropRequest(c) ==
    /\ cli.callers[c].pc = "live" /\ cli.callers[c].request
    /\ cli' = [ArcDrop(ArcDrop(cli, cli.callers[c].conn),
                       cli.callers[c].h_request) EXCEPT
                 !.callers[c].request = FALSE]
    /\ UNCHANGED <<res, req, life, mac, hdr, unx, err, mrs, rl, rwb>>

\* the Response is dropped: its _connection and h_request are dropped
CliDropResponse(c) ==
    /\ cli.callers[c].pc = "live" /\ cli.callers[c].response
    /\ cli' = [ArcDrop(ArcDrop(cli, cli.callers[c].conn),
                       cli.callers[c].h_request) EXCEPT
                 !.callers[c].response = FALSE]
    /\ UNCHANGED <<res, req, life, mac, hdr, unx, err, mrs, rl, rwb>>

\* the handles the cache holds
Cached(k) == {k.connections[host] : host \in Hosts} \ {0}

\* the Client is dropped (no caller is inside one of its methods): the
\* HashMap drops every Arc it holds
CliDropClient ==
    /\ cli.alive
    /\ \A c \in Callers :
         cli.callers[c].pc \notin {"locked", "connecting", "opening"}
    /\ cli' = [cli EXCEPT
                 !.alive = FALSE,
                 !.connections = [host \in Hosts |-> 0],
                 !.strong = [h \in Handles |->
                               IF h \in Cached(cli) THEN @[h] - 1 ELSE @[h]],
                 !.closed = [h \in Handles |->
                               IF h \in Cached(cli) /\ cli.strong[h] = 1
                               THEN @[h] + 1 ELSE @[h]]]
    /\ UNCHANGED <<res, req, life, mac, hdr, unx, err, mrs, rl, rwb>>

(* =========================== response stream =========================== *)
(* Fields of res:                                                          *)
(*   rev            which revision of the response is running              *)
(*   status         ctx.status            (revision "status")              *)
(*   waker          ctx.waker is Some                                      *)
(*   io_error       ctx.io_error          (revision "status")              *)
(*   raw_headers    ctx.raw_headers, copied from the request's context     *)
(*   buf_size       ctx.buf_size                                           *)
(*   has_completed  ctx.has_completed     (revision "channel")             *)
(*   channel        events sent on callback_sender and not yet received    *)
(*   read_size      Response.read_size                                     *)
(*   buf            Response.buf                                           *)
(*   pc             position of the running poll_read ("idle": none)       *)
(*   local          the running poll's local `status`                      *)
(*   ops            native operations issued and not yet completed         *)
(*   cb             the status callback the native thread is running       *)
(*   woken          the reading task is scheduled to call poll_read        *)
(*   notified       wake-only notifications sent so far                    *)
(*   native_pos     payload bytes the native layer has delivered           *)
(*   native_end     the native layer has completed a read with length 0    *)
(*   out            bytes poll_read has returned, in order                 *)
(*   last           what the last poll_read returned                       *)
(*   eof_seen       some poll_read returned Ok(0) at the end of the data   *)
(*   err_stored     an error callback has deposited its error              *)
(*   err_seen       some poll_read returned the callback's error           *)
(*   cancelled      the native layer has cancelled an operation            *)
(*   refills        native reads that have delivered data                  *)
(*   partial        some native read delivered data but fewer bytes than   *)
(*                  it was asked for                                      *)
(*   after_partial  a native read delivered data after such a read         *)
(*   wakes          times the status callback that runs, or ran last, has  *)
(*                  invoked the stored waker                               *)
(*   calls          native calls made by the running, or the last, poll    *)
(*   failed         <<>>, or <<the call of that poll that returned         *)
(*                  failure>>                                              *)
(*   cx             the waker passed to the running, or the last,          *)
(*                  poll_read (0 before the first)                         *)
(*   stored         the waker held in ctx.waker (0: None)                  *)

\* the wakers an executor may pass: one per task that polls the response
Wakers == 1..NWakers

\* impl Default for NetworkContext: status Init, no waker, no error,
\* buf_size 0
NetworkContextDefault ==
    [status |-> "Init", waker |-> FALSE, io_error |-> "none",
     raw_headers |-> "", buf_size |-> 0]

\* the context fields of the "channel" revision: nothing completed yet,
\* nothing sent on the channel
ChannelContextDefault ==
    [has_completed |-> FALSE, channel |-> <<>>]

\* the length WinHttpReadData is given: self.buf.len(); the mutant asks
\* for one byte
ReadLenOne(r) == 1

ReadLen(r) == Len(r.buf)

\* a Response as Request::poll builds it (read_size 0, buf zeroed, a
\* default context), about to be read for the first time
NewResponse(r) ==
    [rev |-> r,
     status |-> NetworkContextDefault.status,
     waker |-> NetworkContextDefault.waker,
     io_error |-> NetworkContextDefault.io_error,
     raw_headers |-> "received",
     buf_size |-> NetworkContextDefault.buf_size,
     has_completed |-> ChannelContextDefault.has_completed,
     channel |-> ChannelContextDefault.channel,
     read_size |-> 0,
     buf |-> [i \in 1..BUF_SIZE |-> 0],
     pc |-> "idle",
     local |-> "none",
     ops |-> <<>>,
     cb |-> NoCallback,
     woken |-> TRUE,
     notified |-> 0,
     native_pos |-> 0,
     native_end |-> FALSE,
     out |-> <<>>,
     last |-> "none",
     eof_seen |-> FALSE,
     err_stored |-> FALSE,
     err_seen |-> FALSE,
     cancelled |-> FALSE,
     refills |-> 0,
     partial |-> FALSE,
     after_partial |-> FALSE,
     wakes |-> 0,
     cx |-> 0,
     stored |-> 0,
     calls |-> <<>>,
     failed |-> <<>>]

\* poll_read returns: Ready hands control back to the caller, which may
\* call again at once; Pending parks the task until a waker is invoked
\* (wake: the poll invoked its own waker before returning)
Return(r, result, wake) ==
    [r EXCEPT !.pc = "idle", !.local = "none", !.last = result,
              !.woken = (@ \/ wake \/ result # "Pending")]

\* a native call made from a poll: it fails at once (returns 0) and the
\* poll returns Ready(Err(resolve_io_error())), or it is issued and its
\* completion arrives later through the callback
IssueNative(r, op, wake) ==
    LET c == [r EXCEPT !.calls = Append(@, op.op)] IN
      {Return([c EXCEPT !.failed = <<SyncFailure(c.calls, e)>>],
              "Err", FALSE) : e \in LastErrorCodes}
      \cup {Return([c EXCEPT !.ops = Append(@, op)], "Pending", wake)}

\* CopyLen that copies as much as the caller's buffer holds
CopyLenCaller(buf_size, len, read_size) == len

\* min(ctx.buf_size, buf.len(), ctx.buf_size - read_size)
CopyLen(buf_size, len, read_size) ==
    Min(Min(buf_size, len), buf_size - read_size)

\* CopyOut with the slice taken from the start of the transfer buffer
CopyOutFromStart(r, n) ==
    [r EXCEPT !.out = @ \o SubSeq(r.buf, 1, n),
              !.read_size = @ + n]

\* buf[..n].copy_from_slice(&self.buf[read_size..read_size + n]);
\* self.read_size += n
CopyOut(r, n) ==
    [r EXCEPT !.out = @ \o SubSeq(r.buf, r.read_size + 1, r.read_size + n),
              !.read_size = @ + n]

(* ---- revision "status": Response::poll_read of windows/mod.rs ---- *)

\* let status = self.ctx.status;
ResPollLoad ==
    /\ res.rev = "status" /\ res.pc = "idle" /\ res.woken
    /\ \E w \in Wakers :
         res' = [res EXCEPT !.woken = FALSE, !.local = res.status,
                            !.cx = w, !.calls = <<>>, !.failed = <<>>,
                            !.pc = "store"]
    /\ UNCHANGED <<req, cli, life, mac, hdr, unx, err, mrs, rl, rwb>>

\* ResPollStore that leaves the status it loaded in place
ResPollStoreKeep ==
    /\ res.rev = "status" /\ res.pc = "store"
    /\ res' = [res EXCEPT !.pc = "match"]
    /\ UNCHANGED <<req, cli, life, mac, hdr, unx, err, mrs, rl, rwb>>

\* self.ctx.status = NetworkStatus::Pending;
ResPollStore ==
    /\ res.rev = "status" /\ res.pc = "store"
    /\ res' = [res EXCEPT !.status = "Pending", !.pc = "match"]
    /\ UNCHANGED <<req, cli, life, mac, hdr, unx, err, mrs, rl, rwb>>

\* NetworkStatus::Init => if ctx.waker.is_none() { store the waker },
\* WinHttpQueryDataAvailable
ResPollInit ==
    /\ res.rev = "status" /\ res.pc = "match" /\ res.local = "Init"
    /\ res' \in IssueNative(
                   [res EXCEPT !.waker = TRUE,
                               !.stored = IF res.waker THEN @ ELSE res.cx],
                   NativeOp("query", 0), FALSE)
    /\ UNCHANGED <<req, cli, life, mac, hdr, unx, err, mrs, rl, rwb>>

\* NetworkStatus::DataAvailable => read_size = 0, WinHttpReadData
ResPollDataAvailable ==
    /\ res.rev = "status" /\ res.pc = "match"
    /\ res.local = "DataAvailable"
    /\ res' \in IssueNative([res EXCEPT !.read_size = 0], NativeOp("read", ReadLen(res)), FALSE)
    /\ UNCHANGED <<req, cli, life, mac, hdr, unx, err, mrs, rl, rwb>>

\* NetworkStatus::DataWritten:
\*   ctx.buf_size == 0            => Ready(Ok(0))
\*   read_size >= ctx.buf_size    => WinHttpQueryDataAvailable
\*   otherwise                    => status = DataWritten, copy, Ready(Ok(n))
ResPollDataWritten ==
    /\ res.rev = "status" /\ res.pc = "match" /\ res.local = "DataWritten"
    /\ IF res.buf_size = 0
       THEN res' = Return([res EXCEPT !.eof_seen = TRUE], "Eof", FALSE)
       ELSE IF res.read_size >= res.buf_size
       THEN res' \in IssueNative(res, NativeOp("query", 0), FALSE)
       ELSE \E len \in 1..MaxCallerBuf :
              res' = Return(
                  CopyOut([res EXCEPT !.status = "DataWritten"],
                          CopyLen(res.buf_size, len, res.read_size)),
                  "Ok", FALSE)
    /\ UNCHANGED <<req, cli, life, mac, hdr, unx, err, mrs, rl, rwb>>

\* NetworkStatus::Error => Ready(Err(io_error.take()))
ResPollError ==
    /\ res.rev = "status" /\ res.pc = "match" /\ res.local = "Error"
    /\ res' = Return([res EXCEPT !.io_error = "none", !.err_seen = TRUE],
                     "Err", FALSE)
    /\ UNCHANGED <<req, cli, life, mac, hdr, unx, err, mrs, rl, rwb>>

\* NetworkStatus::Pending => Poll::Pending; the request-phase statuses are
\* the unreachable!() arms
ResPollOther ==
    /\ res.rev = "status" /\ res.pc = "match"
    /\ res.local \in {"Pending", "WriteCompleted", "BodySent",
                      "HeadersReceived"}
    /\ res' = Return(res, IF res.local = "Pending" THEN "Pending"
                          ELSE "Panic", FALSE)
    /\ UNCHANGED <<req, cli, life, mac, hdr, unx, err, mrs, rl, rwb>>

(* ---- revision "channel": WinHTTPResponse::poll_read of ---- *)
(* ---- windows/response.rs                                ---- *)

\* if ctx.waker.is_none() { store the waker; WinHttpQueryDataAvailable }
ChPollEnter ==
    /\ res.rev = "channel" /\ res.pc = "idle" /\ res.woken
    /\ \E w \in Wakers :
         LET r == [res EXCEPT !.woken = FALSE, !.cx = w,
                                !.calls = <<>>, !.failed = <<>>]
             c == [r EXCEPT !.waker = TRUE, !.stored = w,
                            !.calls = <<"query">>]
         IN IF ~res.waker
            THEN res' \in
                   {Return([c EXCEPT !.failed = <<SyncFailure(c.calls, e)>>],
                           "Err", FALSE) : e \in LastErrorCodes}
                   \cup {[c EXCEPT !.ops = Append(@, NativeOp("query", 0)),
                                   !.pc = "completed"]}
            ELSE res' = [r EXCEPT !.pc = "completed"]
    /\ UNCHANGED <<req, cli, life, mac, hdr, unx, err, mrs, rl, rwb>>

\* if self.ctx.has_completed { return Ready(Ok(0)) }
ChPollCompleted ==
    /\ res.rev = "channel" /\ res.pc = "completed"
    /\ IF res.has_completed
       THEN res' = Return([res EXCEPT !.eof_seen = TRUE], "Eof", FALSE)
       ELSE res' = [res EXCEPT !.pc = "copy"]
    /\ UNCHANGED <<req, cli, life, mac, hdr, unx, err, mrs, rl, rwb>>

\* if ctx.buf_size != usize::MAX && read_size < ctx.buf_size { copy out }
ChPollCopy ==
    /\ res.rev = "channel" /\ res.pc = "copy"
    /\ IF res.buf_size # USIZE_MAX /\ res.read_size < res.buf_size
       THEN \E len \in 1..MaxCallerBuf :
              res' = Return(
                  CopyOut(res, CopyLen(res.buf_size, len, res.read_size)),
                  "Ok", FALSE)
       ELSE res' = [res EXCEPT !.pc = "recv"]
    /\ UNCHANGED <<req, cli, life, mac, hdr, unx, err, mrs, rl, rwb>>

\* match self.callback_receiver.try_recv(): no event => Poll::Pending
ChPollRecvEmpty ==
    /\ res.rev = "channel" /\ res.pc = "recv" /\ res.channel = <<>>
    /\ res' = Return(res, "Pending", FALSE)
    /\ UNCHANGED <<req, cli, life, mac, hdr, unx, err, mrs, rl, rwb>>

\* Ok(event): the arm of the event, then cx.waker().wake_by_ref() unless
\* the arm returned early on a failed native call
ChPollRecvEvent ==
    /\ res.rev = "channel" /\ res.pc = "recv" /\ res.channel # <<>>
    /\ LET event == Head(res.channel)
           r == [res EXCEPT !.channel = Tail(@)]
       IN CASE event = "DataAvailable" ->
                 res' \in IssueNative(
                     [r EXCEPT !.read_size = 0, !.buf_size = USIZE_MAX],
                     NativeOp("read", ReadLen(res)), TRUE)
            [] event = "DataWritten" ->
                 IF r.buf_size = 0
                 THEN res' = Return([r EXCEPT !.eof_seen = TRUE],
                                    "Eof", TRUE)
                 ELSE res' \in IssueNative(r, NativeOp("query", 0), TRUE)
            [] event = "Error" ->
                 res' = Return([r EXCEPT !.err_seen = TRUE], "Err", TRUE)
            [] OTHER ->
                 res' = Return(r, "Panic", FALSE)
    /\ UNCHANGED <<req, cli, life, mac, hdr, unx, err, mrs, rl, rwb>>


(* ---- the native read side: WinHTTP completes the operations the ---- *)
(* ---- polls issue and invokes the status callback on its thread  ---- *)

Callback(ev, len, code) ==
    [ev |-> ev, len |-> len, code |-> code, step |-> 1,
     q1 |-> "none", q2 |-> "none"]

\* HeaderQueryFails that takes every failure of the first call as fatal
HeaderQueryFailsAny(cb) ==
    cb.q1 # "ok" \/ cb.q2 # "ok"

\* HEADERS_AVAILABLE: the two WinHttpQueryHeaders calls.  cb.q1 is the
\* outcome of the first, which has no buffer and fails, with
\* ERROR_INSUFFICIENT_BUFFER or with another code; cb.q2 is the outcome of
\* the second
HeaderQueryFails(cb) ==
    cb.q1 # "ERROR_INSUFFICIENT_BUFFER" \/ cb.q2 # "ok"

\* WinHttpQueryDataAvailable completes: DATA_AVAILABLE
NativeDataAvailable ==
    /\ res.ops # <<>> /\ Head(res.ops).op = "query" /\ res.cb.ev = "none"
    /\ res' = [res EXCEPT !.ops = Tail(@),
                          !.cb = Callback("DATA_AVAILABLE", 0, "none")]
    /\ UNCHANGED <<req, cli, life, mac, hdr, unx, err, mrs, rl, rwb>>

\* WinHttpReadData completes: the native layer has written the next n
\* bytes of the payload to the start of the buffer it was given, n = 0 at
\* the end of the data; READ_COMPLETE carries n
NativeReadComplete ==
    /\ res.ops # <<>> /\ Head(res.ops).op = "read" /\ res.cb.ev = "none"
    /\ \E n \in 0..Min(Head(res.ops).size, MaxPayload - res.native_pos) :
         /\ res.native_end => n = 0
         /\ res' = [res EXCEPT
                !.ops = Tail(@),
                !.refills = IF n > 0 THEN @ + 1 ELSE @,
                !.partial = @ \/ (0 < n /\ n < Head(res.ops).size),
                !.after_partial = @ \/ (res.partial /\ n > 0),
                !.buf = [i \in 1..BUF_SIZE |->
                            IF i <= n THEN res.native_pos + i ELSE @[i]],
                !.native_pos = @ + n,
                !.native_end = (n = 0),
                !.cb = Callback("READ_COMPLETE", n, "none")]
    /\ UNCHANGED <<req, cli, life, mac, hdr, unx, err, mrs, rl, rwb>>

\* the outstanding operation fails: REQUEST_ERROR with the error code
NativeRequestError ==
    /\ res.ops # <<>> /\ res.cb.ev = "none"
    /\ \E code \in RequestErrorCodes :
         res' = [res EXCEPT !.ops = Tail(@),
                            !.cb = Callback("REQUEST_ERROR", 0, code)]
    /\ UNCHANGED <<req, cli, life, mac, hdr, unx, err, mrs, rl, rwb>>

\* the outstanding operation is cancelled: REQUEST_ERROR with
\* ERROR_WINHTTP_OPERATION_CANCELLED
NativeCancelled ==
    /\ res.ops # <<>> /\ res.cb.ev = "none"
    /\ res' = [res EXCEPT !.ops = Tail(@),
                          !.cancelled = TRUE,
                          !.cb = Callback("REQUEST_ERROR", 0,
                                          "OPERATION_CANCELLED")]
    /\ UNCHANGED <<req, cli, life, mac, hdr, unx, err, mrs, rl, rwb>>

\* while an operation is outstanding the stack reports its progress:
\* RECEIVING_RESPONSE while it waits for the server, CONNECTION_CLOSED
\* while it sends; status_callback handles both with a wake and no event
Notification(op) ==
    IF op \in {"receive", "query", "read"} THEN "RECEIVING_RESPONSE"
    ELSE "CONNECTION_CLOSED"

\* the callback is registered with WINHTTP_CALLBACK_FLAG_ALL_NOTIFICATIONS,
\* so it is also given RESPONSE_RECEIVED when data has arrived for the
\* outstanding operation
NativeNotify ==
    /\ res.ops # <<>> /\ res.cb.ev = "none"
    /\ res.notified < MaxNotify
    /\ \E ev \in {Notification(Head(res.ops).op), "RESPONSE_RECEIVED"} :
         res' = [res EXCEPT !.notified = @ + 1,
                            !.cb = Callback(ev, 0, "none")]
    /\ UNCHANGED <<req, cli, life, mac, hdr, unx, err, mrs, rl, rwb>>

\* result.dwError != ERROR_WINHTTP_OPERATION_CANCELLED; the mutant lets
\* every code through
NotCancelledAny(code) == TRUE

NotCancelled(code) == code # "OPERATION_CANCELLED"

\* if let Some(waker) = &ctx.waker { waker.wake_by_ref() }
Wake(r) ==
    [r EXCEPT !.woken = (@ \/ r.waker),
              !.wakes = IF r.waker THEN @ + 1 ELSE @]

\* status_callback of windows/mod.rs: the event is written to ctx.status
StatusCallbackBody(r, cb) ==
    CASE cb.ev \in {"SENDREQUEST_COMPLETE", "WRITE_COMPLETE"} ->
           Wake([r EXCEPT !.status = "WriteCompleted"])
      [] cb.ev = "HEADERS_AVAILABLE" ->
           IF HeaderQueryFails(cb)
           THEN Wake([r EXCEPT !.io_error = "Other", !.status = "Error",
                               !.err_stored = TRUE])
           ELSE Wake([r EXCEPT !.raw_headers = "received",
                               !.status = "HeadersReceived"])
      [] cb.ev = "DATA_AVAILABLE" ->
           Wake([r EXCEPT !.status = "DataAvailable"])
      [] cb.ev = "READ_COMPLETE" ->
           Wake([r EXCEPT !.buf_size = cb.len, !.status = "DataWritten"])
      [] cb.ev = "REQUEST_ERROR" ->
           IF NotCancelled(cb.code)
           THEN Wake([r EXCEPT
                        !.io_error = resolve_io_error_from_error_code(cb.code),
                        !.status = "Error",
                        !.err_stored = TRUE])
           ELSE r
      [] cb.ev \in {"RECEIVING_RESPONSE", "CONNECTION_CLOSED"} -> Wake(r)
      [] OTHER -> r

ResStatusCallback ==
    /\ res.rev = "status" /\ res.cb.ev # "none"
    /\ res' = [StatusCallbackBody([res EXCEPT !.wakes = 0], res.cb)
                 EXCEPT !.cb = NoCallback]
    /\ UNCHANGED <<req, cli, life, mac, hdr, unx, err, mrs, rl, rwb>>

\* status_callback of windows/callback.rs: the event is sent on
\* ctx.callback_sender; READ_COMPLETE first writes ctx.buf_size (step 1)
\* and ctx.has_completed (step 2) and then sends DataWritten (step 3)
ChannelCallbackBody(r, cb) ==
    CASE cb.ev = "DATA_AVAILABLE" ->
           Wake([r EXCEPT !.channel = Append(@, "DataAvailable"),
                          !.cb = NoCallback])
      [] cb.ev = "READ_COMPLETE" /\ cb.step = 1 ->
           [r EXCEPT !.buf_size = cb.len, !.cb.step = 2]
      [] cb.ev = "READ_COMPLETE" /\ cb.step = 2 ->
           [r EXCEPT !.has_completed = (r.buf_size = 0), !.cb.step = 3]
      [] cb.ev = "READ_COMPLETE" /\ cb.step = 3 ->
           Wake([r EXCEPT !.channel = Append(@, "DataWritten"),
                          !.cb = NoCallback])
      [] cb.ev = "REQUEST_ERROR" ->
           IF NotCancelled(cb.code)
           THEN Wake([r EXCEPT !.channel = Append(@, "Error"),
                               !.err_stored = TRUE,
                               !.cb = NoCallback])
           ELSE [r EXCEPT !.cb = NoCallback]
      [] OTHER -> Wake([r EXCEPT !.cb = NoCallback])

ResChannelCallback ==
    /\ res.rev = "channel" /\ res.cb.ev # "none"
    /\ res' = ChannelCallbackBody(
                 IF res.cb.step = 1 THEN [res EXCEPT !.wakes = 0] ELSE res,
                 res.cb)
    /\ UNCHANGED <<req, cli, life, mac, hdr, unx, err, mrs, rl, rwb>>

(* ---- accesses to the NetworkContext, for the race condition ---- *)

\* the fields of the context the running poll_read touches in its next
\* step, each with "r" (read) or "w" (write); none when no poll is running
ResPollAccess(r) ==
    CASE r.rev = "status" /\ r.pc = "store" -> {<<"status", "w">>}
      [] r.rev = "status" /\ r.pc = "match" /\ r.local = "Init" ->
           {<<"waker", "w">>}
      [] r.rev = "status" /\ r.pc = "match" /\ r.local = "DataWritten" ->
           {<<"buf_size", "r">>, <<"status", "w">>}
      [] r.rev = "status" /\ r.pc = "match" /\ r.local = "Error" ->
           {<<"io_error", "w">>}
      [] r.rev = "channel" /\ r.pc = "completed" ->
           {<<"has_completed", "r">>}
      [] r.rev = "channel" /\ r.pc = "copy" -> {<<"buf_size", "r">>}
      [] r.rev = "channel" /\ r.pc = "recv" ->
           {<<"channel", "w">>, <<"buf_size", "w">>}
      [] OTHER -> {}

\* the fields of the context the running status callback touches in its
\* next step
CallbackAccess(r) ==
    CASE r.cb.ev = "none" -> {}
      [] r.rev = "status" /\ r.cb.ev = "READ_COMPLETE" ->
           {<<"buf_size", "w">>, <<"status", "w">>, <<"waker", "r">>}
      [] r.rev = "status" /\ r.cb.ev = "DATA_AVAILABLE" ->
           {<<"status", "w">>, <<"waker", "r">>}
      [] r.rev = "status" /\ r.cb.ev = "REQUEST_ERROR" ->
           {<<"io_error", "w">>, <<"status", "w">>, <<"waker", "r">>}
      [] r.rev = "channel" /\ r.cb.ev = "READ_COMPLETE" /\ r.cb.step = 1 ->
           {<<"buf_size", "w">>}
      [] r.rev = "channel" /\ r.cb.ev = "READ_COMPLETE" /\ r.cb.step = 2 ->
           {<<"buf_size", "r">>, <<"has_completed", "w">>}
      [] r.rev = "channel" /\ r.cb.ev \in {"READ_COMPLETE", "DATA_AVAILABLE",
                                           "REQUEST_ERROR"} ->
           {<<"channel", "w">>, <<"waker", "r">>}
      [] OTHER -> {<<"waker", "r">>}

\* what the code puts behind a lock, an atomic or a channel: the events
\* of the "channel" revision travel through std::sync::mpsc
Protected == {"channel"}

(* ============================ request future =========================== *)
(* Fields of req:                                                          *)
(*   status, waker, io_error, raw_headers, buf_size   the NetworkContext   *)
(*   body_len       bytes the body source yields before its Ok(0)          *)
(*   body_pos       bytes the body source has yielded so far               *)
(*   body_stalled   the body source returned Pending and has not woken yet *)
(*   stalls         times the body source has returned Pending             *)
(*   buf            Request.buf                                            *)
(*   pc, local      position of the running poll and its local `status`    *)
(*   ops, cb        native operations outstanding, callback running        *)
(*   woken          the task is scheduled to be polled                     *)
(*   notified       wake-only notifications sent so far                    *)
(*   written        bytes the native layer has taken from WinHttpWriteData *)
(*   body_sent      a poll has moved the request to BodySent               *)
(*   resolved       what the future resolved to ("none": still pending)    *)
(*   err_stored     an error callback has deposited its error              *)
(*   handle_context the context registered on the request handle           *)
(*   wakes          times the status callback that runs, or ran last, has  *)
(*                  invoked the stored waker                               *)
(*   calls          native calls made by the running, or the last, poll    *)
(*   failed         <<>>, or <<the call of that poll that returned         *)
(*                  failure>>                                              *)
(*   response       <<>>, or <<the Response the future resolved to>>       *)
(*   log            in order: the native calls the polls have made         *)
(*                  ("send", "write", "receive"), "BodyEnd" for the body   *)
(*                  source's Ok(0), and the events the callback has been   *)
(*                  given, wake-only notifications left out                *)

\* Client::request builds the Request (default context, zeroed buffer);
\* Request::body sets the body source, which will yield len bytes
NewRequest(len) ==
    [status |-> NetworkContextDefault.status,
     waker |-> NetworkContextDefault.waker,
     io_error |-> NetworkContextDefault.io_error,
     raw_headers |-> NetworkContextDefault.raw_headers,
     buf_size |-> NetworkContextDefault.buf_size,
     body_len |-> len,
     body_pos |-> 0,
     body_stalled |-> FALSE,
     stalls |-> 0,
     buf |-> [i \in 1..BUF_SIZE |-> 0],
     pc |-> "idle",
     local |-> "none",
     ops |-> <<>>,
     cb |-> NoCallback,
     woken |-> TRUE,
     notified |-> 0,
     written |-> <<>>,
     body_sent |-> FALSE,
     resolved |-> "none",
     err_stored |-> FALSE,
     handle_context |-> "none",
     response |-> <<>>,
     wakes |-> 0,
     calls |-> <<>>,
     failed |-> <<>>,
     log |-> <<>>]

\* the poll returns Poll::Pending (wake: after invoking its own waker)
ReqPending(r, wake) ==
    [r EXCEPT !.pc = "idle", !.local = "none", !.woken = (@ \/ wake)]

\* the poll returns Poll::Ready: the future is resolved
ReqReady(r, result) ==
    [r EXCEPT !.pc = "idle", !.local = "none", !.resolved = result]

\* a native call made from Request::poll: it returns 0 and the poll
\* returns Ready(resolve_io_error()), or it is issued
ReqIssueNative(r, op) ==
    LET c == [r EXCEPT !.calls = Append(@, op.op),
                       !.log = Append(@, op.op)]
    IN {ReqReady([c EXCEPT !.failed = <<SyncFailure(c.calls, e)>>], "Err") :
          e \in LastErrorCodes}
       \cup {ReqPending([c EXCEPT !.ops = Append(@, op)], FALSE)}

\* let status = self.ctx.status;
ReqPollLoad ==
    /\ req.pc = "idle" /\ req.woken /\ req.resolved = "none"
    /\ req' = [req EXCEPT !.woken = FALSE, !.local = req.status,
                          !.calls = <<>>, !.failed = <<>>,
                          !.pc = "store"]
    /\ UNCHANGED <<res, cli, life, mac, hdr, unx, err, mrs, rl, rwb>>

\* ReqPollStore that leaves the observed status in place
ReqPollStoreKeep ==
    /\ req.pc = "store"
    /\ req' = [req EXCEPT !.pc = "match"]
    /\ UNCHANGED <<res, cli, life, mac, hdr, unx, err, mrs, rl, rwb>>

\* self.ctx.status = NetworkStatus::Pending;
ReqPollStore ==
    /\ req.pc = "store"
    /\ req' = [req EXCEPT !.status = "Pending", !.pc = "match"]
    /\ UNCHANGED <<res, cli, life, mac, hdr, unx, err, mrs, rl, rwb>>

\* ReqPollInit that puts the status back to Init
ReqPollInitAgain ==
    /\ req.pc = "match" /\ req.local = "Init"
    /\ req' \in ReqIssueNative([req EXCEPT !.waker = TRUE, !.status = "Init",
                                           !.handle_context = "Request.ctx"],
                               NativeOp("send", 0))
    /\ UNCHANGED <<res, cli, life, mac, hdr, unx, err, mrs, rl, rwb>>

\* NetworkStatus::Init => store the waker, WinHttpSendRequest
ReqPollInit ==
    /\ req.pc = "match" /\ req.local = "Init"
    /\ req' \in ReqIssueNative([req EXCEPT !.waker = TRUE,
                                           !.handle_context = "Request.ctx"],
                               NativeOp("send", 0))
    /\ UNCHANGED <<res, cli, life, mac, hdr, unx, err, mrs, rl, rwb>>

\* WriteData handing the whole transfer buffer to the native layer
WriteDataWholeBuf(r, size) == ReqIssueNative(r, NativeOp("write", BUF_SIZE))

\* WinHttpWriteData(h_request, buf, size)
WriteData(r, size) == ReqIssueNative(r, NativeOp("write", size))

\* body.poll_read(cx, buf) returns Ready(Ok(size)): the source has put its
\* next size bytes at the start of buf
BodyRead(r, size) ==
    [r EXCEPT !.buf = [i \in 1..BUF_SIZE |->
                          IF i <= size THEN r.body_pos + i ELSE @[i]],
              !.body_pos = @ + size]

\* ReqPollWriteCompleted that leaves DataWritten, a status of the
\* response phase, at the end of the body
ReqPollWriteCompletedDataWritten ==
    /\ req.pc = "match" /\ req.local = "WriteCompleted"
    /\ \/ /\ req.body_pos = req.body_len
          /\ req' = ReqPending([req EXCEPT !.status = "DataWritten",
                                           !.body_sent = TRUE,
                                           !.log = Append(@, "BodyEnd")],
                               TRUE)
       \/ \E size \in 1..Min(BUF_SIZE, req.body_len - req.body_pos) :
            req' \in WriteData(BodyRead(req, size), size)
       \/ req' = ReqReady(req, "Err")
    /\ UNCHANGED <<res, cli, life, mac, hdr, unx, err, mrs, rl, rwb>>

\* NetworkStatus::WriteCompleted => body.poll_read(cx, buf):
\*   Ready(Ok(0))     => status = BodySent, wake_by_ref, Pending
\*   Ready(Ok(size))  => WinHttpWriteData(buf, size), Pending
\*   Ready(Err(err))  => Ready(Err(err))
ReqPollWriteCompleted ==
    /\ req.pc = "match" /\ req.local = "WriteCompleted"
    /\ \/ /\ req.body_pos = req.body_len
          /\ req' = ReqPending([req EXCEPT !.status = "BodySent",
                                           !.body_sent = TRUE,
                                           !.log = Append(@, "BodyEnd")],
                               TRUE)
       \/ \E size \in 1..Min(BUF_SIZE, req.body_len - req.body_pos) :
            req' \in WriteData(BodyRead(req, size), size)
       \/ req' = ReqReady(req, "Err")
    /\ UNCHANGED <<res, cli, life, mac, hdr, unx, err, mrs, rl, rwb>>

\* NetworkStatus::WriteCompleted, body.poll_read returns Poll::Pending
\* => Poll::Pending; the body source keeps the waker
ReqPollBodyPending ==
    /\ req.pc = "match" /\ req.local = "WriteCompleted"
    /\ req.stalls < MaxStall
    /\ req' = ReqPending([req EXCEPT !.stalls = @ + 1,
                                     !.body_stalled = TRUE], FALSE)
    /\ UNCHANGED <<res, cli, life, mac, hdr, unx, err, mrs, rl, rwb>>

\* the body source has data again and invokes the waker it was given
ReqBodyWake ==
    /\ req.body_stalled
    /\ req' = [req EXCEPT !.body_stalled = FALSE, !.woken = TRUE]
    /\ UNCHANGED <<res, cli, life, mac, hdr, unx, err, mrs, rl, rwb>>

\* NetworkStatus::BodySent => WinHttpReceiveResponse
ReqPollBodySent ==
    /\ req.pc = "match" /\ req.local = "BodySent"
    /\ req' \in ReqIssueNative(req, NativeOp("receive", 0))
    /\ UNCHANGED <<res, cli, life, mac, hdr, unx, err, mrs, rl, rwb>>

\* Response { _connection: self.connection.clone(), ctx,
\*            h_request: self.h_request.clone(), read_size: 0, buf }
ResponseOf(r, ctx) ==
    [_connection |-> "Request.connection", h_request |-> "Request.h_request",
     ctx |-> ctx, read_size |-> 0, buf |-> [i \in 1..BUF_SIZE |-> 0]]

\* ReqPollHeadersReceived that does not look at what WinHttpSetOption
\* returned
ReqPollHeadersReceivedUnchecked ==
    /\ req.pc = "match" /\ req.local = "HeadersReceived"
    /\ LET ctx == [NetworkContextDefault EXCEPT
                     !.raw_headers = req.raw_headers]
       IN \E r \in {0, 1} :
            req' = ReqReady(
                     [req EXCEPT
                        !.handle_context = IF r = 0 THEN @ ELSE "Response.ctx",
                        !.response = <<ResponseOf(req, ctx)>>],
                     "Response")
    /\ UNCHANGED <<res, cli, life, mac, hdr, unx, err, mrs, rl, rwb>>

\* NetworkStatus::HeadersReceived => a default context with the raw
\* headers, WinHttpSetOption(CONTEXT_VALUE) (0 => resolve_io_error()),
\* Ready(Ok(Response))
ReqPollHeadersReceived ==
    /\ req.pc = "match" /\ req.local = "HeadersReceived"
    /\ LET ctx == [NetworkContextDefault EXCEPT
                     !.raw_headers = req.raw_headers]
           c == [req EXCEPT !.calls = Append(@, "set_context")]
       IN \E r \in {0, 1}, e \in LastErrorCodes :
            req' = IF r = 0
                   THEN ReqReady(
                          [c EXCEPT !.failed = <<SyncFailure(c.calls, e)>>],
                          "Err")
                   ELSE ReqReady(
                          [c EXCEPT !.handle_context = "Response.ctx",
                                    !.response = <<ResponseOf(req, ctx)>>],
                          "Response")
    /\ UNCHANGED <<res, cli, life, mac, hdr, unx, err, mrs, rl, rwb>>

\* NetworkStatus::Error => Ready(Err(io_error.take()))
ReqPollError ==
    /\ req.pc = "match" /\ req.local = "Error"
    /\ req' = ReqReady([req EXCEPT !.io_error = "none"], "Err")
    /\ UNCHANGED <<res, cli, life, mac, hdr, unx, err, mrs, rl, rwb>>

\* NetworkStatus::Pending => Poll::Pending; _ => unreachable!()
ReqPollOther ==
    /\ req.pc = "match"
    /\ req.local \in {"Pending", "DataAvailable", "DataWritten"}
    /\ req' = IF req.local = "Pending" THEN ReqPending(req, FALSE)
              ELSE ReqReady(req, "Panic")
    /\ UNCHANGED <<res, cli, life, mac, hdr, unx, err, mrs, rl, rwb>>

(* ---- the native send side ---- *)

\* WinHttpSendRequest completes: SENDREQUEST_COMPLETE
NativeSendComplete ==
    /\ req.ops # <<>> /\ Head(req.ops).op = "send" /\ req.cb.ev = "none"
    /\ req' = [req EXCEPT
                 !.ops = Tail(@),
                 !.cb = Callback("SENDREQUEST_COMPLETE", 0, "none")]
    /\ UNCHANGED <<res, cli, life, mac, hdr, unx, err, mrs, rl, rwb>>

\* WinHttpWriteData completes: the native layer has taken the first size
\* bytes of the buffer it was given; WRITE_COMPLETE
NativeWriteComplete ==
    /\ req.ops # <<>> /\ Head(req.ops).op = "write" /\ req.cb.ev = "none"
    /\ req' = [req EXCEPT
                 !.ops = Tail(@),
                 !.written = @ \o SubSeq(req.buf, 1, Head(req.ops).size),
                 !.cb = Callback("WRITE_COMPLETE", 0, "none")]
    /\ UNCHANGED <<res, cli, life, mac, hdr, unx, err, mrs, rl, rwb>>

\* WinHttpReceiveResponse completes: HEADERS_AVAILABLE; the callback will
\* query the headers in two passes
NativeHeadersAvailable ==
    /\ req.ops # <<>> /\ Head(req.ops).op = "receive" /\ req.cb.ev = "none"
    /\ \E q \in {<<"ERROR_INSUFFICIENT_BUFFER", "ok">>,
                 <<"ERROR_INSUFFICIENT_BUFFER", "fail">>,
                 <<"other", "none">>} :
         req' = [req EXCEPT
                   !.ops = Tail(@),
                   !.cb = [Callback("HEADERS_AVAILABLE", 0, "none")
                             EXCEPT !.q1 = q[1], !.q2 = q[2]]]
    /\ UNCHANGED <<res, cli, life, mac, hdr, unx, err, mrs, rl, rwb>>

\* the outstanding operation fails: REQUEST_ERROR with the error code
NativeSendError ==
    /\ req.ops # <<>> /\ req.cb.ev = "none"
    /\ \E code \in RequestErrorCodes :
         req' = [req EXCEPT !.ops = Tail(@),
                            !.cb = Callback("REQUEST_ERROR", 0, code)]
    /\ UNCHANGED <<res, cli, life, mac, hdr, unx, err, mrs, rl, rwb>>

\* progress notifications while an operation is outstanding
\* (RECEIVING_RESPONSE, CONNECTION_CLOSED): no event, only a wake
NativeSendNotify ==
    /\ req.ops # <<>> /\ req.cb.ev = "none"
    /\ req.notified < MaxNotify
    /\ req' = [req EXCEPT
                 !.notified = @ + 1,
                 !.cb = Callback(Notification(Head(req.ops).op), 0, "none")]
    /\ UNCHANGED <<res, cli, life, mac, hdr, unx, err, mrs, rl, rwb>>

\* the events that complete a native call of the request
CompletionEvents ==
    {"SENDREQUEST_COMPLETE", "WRITE_COMPLETE", "HEADERS_AVAILABLE",
     "REQUEST_ERROR"}

\* status_callback runs for the request's context
ReqStatusCallback ==
    /\ req.cb.ev # "none"
    /\ req' = [StatusCallbackBody([req EXCEPT !.wakes = 0], req.cb) EXCEPT
                 !.cb = NoCallback,
                 !.log = IF req.cb.ev \in CompletionEvents
                         THEN Append(@, req.cb.ev) ELSE @]
    /\ UNCHANGED <<res, cli, life, mac, hdr, unx, err, mrs, rl, rwb>>

(* ========================= request handle lifecycle ==================== *)
(* One request handle of windows/mod.rs from Client::request to the drop   *)
(* of the Request and of the Response it resolved to.  Fields of life:     *)
(*   request, response  "none", "alive" or "dropped"                       *)
(*   strong       strong count of the Arc<Handle> of h_request             *)
(*   handle       the native handle is "open" or "closed"                  *)
(*   closes       times WinHttpCloseHandle was called on it                *)
(*   assoc        the context value installed on the native handle:        *)
(*                "none", "req" (the Request's ctx) or "res"               *)
(*   assoc_at_close  the context value at the time of the close            *)
(*   ctx          each NetworkContext is "none", "live" or "freed"         *)
(*   phase        "init", "sending", "headers" (HeadersReceived has been   *)
(*                deposited), "reading", "failed"                          *)
(*   op           a native operation is outstanding on the handle          *)
(*   cb           the callback the native thread is running: its event     *)
(*                and the context pointer it was invoked with              *)
(*   pc           where a running drop is: "idle", "req_ctx" (the          *)
(*                Request's h_request is dropped, its ctx not yet),        *)
(*                "res_handle" (the Response's ctx is freed, its           *)
(*                h_request not yet dropped)                               *)
(*   closing_sent the stack has sent HANDLE_CLOSING, its last callback     *)
(*   notified     wake-only notifications sent so far                      *)

NoLifeCallback == [ev |-> "none", ctx |-> "none"]

\* the Request as Client::request returns it: h_request in a fresh Arc,
\* a default context, nothing sent, no context value on the handle
NewLife ==
    [request |-> "alive", response |-> "none", strong |-> 1,
     handle |-> "open", closes |-> 0,
     assoc |-> "none", assoc_at_close |-> "none",
     ctx |-> [req |-> "live", res |-> "none"],
     phase |-> "init", op |-> FALSE, cb |-> NoLifeCallback,
     pc |-> "idle", closing_sent |-> FALSE, notified |-> 0]

\* WinHttpSetOption(target, WINHTTP_OPTION_CONTEXT_VALUE, value): the
\* option is set when target is the open native handle; any other value of
\* target is no handle of the stack and the call fails
SetContextValue(l, target, value) ==
    IF target = "h_request" /\ l.handle = "open"
    THEN [l EXCEPT !.assoc = value]
    ELSE l

\* impl Drop for Handle: WinHttpSetOption(self as *mut Self as *mut _, ..)
\* is given the address of the wrapper, not self.0; its result is
\* ignored; then WinHttpCloseHandle(self.0)
HandleDrop(l) ==
    LET cleared == SetContextValue(l, "wrapper", "none") IN
      [cleared EXCEPT !.handle = "closed", !.closes = @ + 1,
                      !.assoc_at_close = cleared.assoc]

\* drop of one Arc<Handle> of h_request: the last owner runs Handle::drop
ArcDropRequestHandle(l) ==
    IF l.strong = 1
    THEN [HandleDrop(l) EXCEPT !.strong = 0]
    ELSE [l EXCEPT !.strong = @ - 1]

\* Request::poll, Init: WinHttpSendRequest(h_request, .., ctx as usize)
\* installs the Request's context on the handle; 0 => Ready(Err)
LifePollInit ==
    /\ life.request = "alive" /\ life.pc = "idle" /\ life.phase = "init"
    /\ \/ life' = [life EXCEPT !.phase = "failed"]
       \/ life' = [life EXCEPT !.assoc = "req", !.op = TRUE,
                               !.phase = "sending"]
    /\ UNCHANGED <<res, req, cli, mac, hdr, unx, err, mrs, rl, rwb>>

\* Request::poll, HeadersReceived: a new context for the Response,
\* WinHttpSetOption(h_request, CONTEXT_VALUE, &ctx) (0 => Ready(Err) and
\* the new context is freed), then the Response takes h_request.clone()
LifePollHeadersReceived ==
    /\ life.request = "alive" /\ life.pc = "idle" /\ life.phase = "headers"
    /\ \/ life' = [life EXCEPT !.phase = "failed"]
       \/ life' = [SetContextValue(life, "h_request", "res") EXCEPT
                     !.ctx.res = "live", !.response = "alive",
                     !.strong = @ + 1, !.phase = "reading"]
    /\ UNCHANGED <<res, req, cli, mac, hdr, unx, err, mrs, rl, rwb>>

\* Response::poll_read issues WinHttpQueryDataAvailable / WinHttpReadData
LifePollRead ==
    /\ life.response = "alive" /\ life.pc = "idle" /\ ~life.op
    /\ life.cb.ev = "none"
    /\ life' = [life EXCEPT !.op = TRUE]
    /\ UNCHANGED <<res, req, cli, mac, hdr, unx, err, mrs, rl, rwb>>

\* the Request is dropped; its fields go in declaration order:
\* h_request before ctx
LifeDropRequestHandle ==
    /\ life.request = "alive" /\ life.pc = "idle"
    /\ life' = [ArcDropRequestHandle(life) EXCEPT
                  !.request = "dropped", !.pc = "req_ctx"]
    /\ UNCHANGED <<res, req, cli, mac, hdr, unx, err, mrs, rl, rwb>>

LifeDropRequestCtx ==
    /\ life.pc = "req_ctx"
    /\ life' = [life EXCEPT !.ctx.req = "freed", !.pc = "idle"]
    /\ UNCHANGED <<res, req, cli, mac, hdr, unx, err, mrs, rl, rwb>>

\* the Response is dropped; its fields go in declaration order:
\* ctx before h_request
LifeDropResponseCtx ==
    /\ life.response = "alive" /\ life.pc = "idle"
    /\ life' = [life EXCEPT !.response = "dropped", !.ctx.res = "freed",
                            !.pc = "res_handle"]
    /\ UNCHANGED <<res, req, cli, mac, hdr, unx, err, mrs, rl, rwb>>

LifeDropResponseHandle ==
    /\ life.pc = "res_handle"
    /\ life' = [ArcDropRequestHandle(life) EXCEPT !.pc = "idle"]
    /\ UNCHANGED <<res, req, cli, mac, hdr, unx, err, mrs, rl, rwb>>

\* the stack completes the outstanding operation and invokes
\* status_callback with the handle's context value
LifeNativeComplete ==
    /\ life.op /\ life.handle = "open" /\ life.cb.ev = "none"
    /\ life' = [life EXCEPT !.op = FALSE,
                            !.cb = [ev |-> "COMPLETE", ctx |-> life.assoc]]
    /\ UNCHANGED <<res, req, cli, mac, hdr, unx, err, mrs, rl, rwb>>

\* a wake-only notification while the operation is outstanding
LifeNativeNotify ==
    /\ life.op /\ life.handle = "open" /\ life.cb.ev = "none"
    /\ life.notified < MaxNotify
    /\ life' = [life EXCEPT !.notified = @ + 1,
                            !.cb = [ev |-> "NOTIFY", ctx |-> life.assoc]]
    /\ UNCHANGED <<res, req, cli, mac, hdr, unx, err, mrs, rl, rwb>>

\* the handle was closed with the operation outstanding: REQUEST_ERROR
\* with ERROR_WINHTTP_OPERATION_CANCELLED
LifeNativeCancelled ==
    /\ life.op /\ life.handle = "closed" /\ life.cb.ev = "none"
    /\ life' = [life EXCEPT !.op = FALSE,
                            !.cb = [ev |-> "CANCELLED", ctx |-> life.assoc]]
    /\ UNCHANGED <<res, req, cli, mac, hdr, unx, err, mrs, rl, rwb>>

\* the last callback of a closed handle: HANDLE_CLOSING
LifeNativeClosing ==
    /\ life.handle = "closed" /\ ~life.op /\ ~life.closing_sent
    /\ life.cb.ev = "none"
    /\ life' = [life EXCEPT !.closing_sent = TRUE,
                            !.cb = [ev |-> "HANDLE_CLOSING",
                                    ctx |-> life.assoc]]
    /\ UNCHANGED <<res, req, cli, mac, hdr, unx, err, mrs, rl, rwb>>

\* the arms of status_callback that read or write *ctx: the completions
\* write ctx.status and read ctx.waker, the notifications read ctx.waker;
\* REQUEST_ERROR with OPERATION_CANCELLED and the `_ => {}` arm do not
\* touch it
CallbackDereferences(cb) ==
    cb.ctx # "none" /\ cb.ev \in {"COMPLETE", "NOTIFY"}

\* status_callback runs to its end on the native thread
LifeStatusCallback ==
    /\ life.cb.ev # "none"
    /\ life' = [life EXCEPT
                  !.cb = NoLifeCallback,
                  !.phase = IF life.cb = [ev |-> "COMPLETE", ctx |-> "req"]
                               /\ @ = "sending"
                            THEN "headers" ELSE @]
    /\ UNCHANGED <<res, req, cli, mac, hdr, unx, err, mrs, rl, rwb>>

(* ========================= macOS buffered request ====================== *)
(* Request of macos/request.rs with its ReadWriteBuffer.  Fields of mac:   *)
(*   request      the Request is "alive", "resolved" (its future returned  *)
(*                Ready) or "dropped" (dropped before it resolved)         *)
(*   response     "none", "alive", "dropped"                               *)
(*   result       what the future returned ("none": nothing yet)           *)
(*   status       ctx.status                                               *)
(*   woken        the task is scheduled to be polled                       *)
(*   buf, read_len, write_len   the ReadWriteBuffer                        *)
(*   body_len, body_pos, stalls the body source                            *)
(*   sent_body_len              Request.sent_body_len                      *)
(*   accepted     bytes the native write stream has accepted, in order     *)
(*   body_sent    a poll has moved the request to BodySent                 *)
(*   req_write_stream, req_read_stream, res_read_stream                    *)
(*                each "null", "open", "closed" or "released"              *)

\* the native stream objects a Request creates
Streams == {"req_write_stream", "req_read_stream", "res_read_stream"}

\* impl Default for ReadWriteBuffer
ReadWriteBufferDefault ==
    [buf |-> [i \in 1..BUFFER_SIZE |-> 0], read_len |-> 0, write_len |-> 0]

is_full(b) == b.write_len = BUFFER_SIZE

get_writable_len(b) == BUFFER_SIZE - b.write_len

increase_write_len(b, len) == [b EXCEPT !.write_len = @ + len]

get_readable_slice(b) == SubSeq(b.buf, b.read_len + 1, b.write_len)

get_readable_len(b) == b.write_len - b.read_len

is_readable(b) == get_readable_len(b) > 0

is_empty(b) == b.read_len = 0 /\ b.write_len = 0

\* increase_read_len that drops what the stream did not accept
increase_read_len_discard(b, len) ==
    [b EXCEPT !.read_len = 0, !.write_len = 0]

\* increase_read_len that leaves the cursors where they meet
increase_read_len_keep(b, len) ==
    [b EXCEPT !.read_len = @ + len]

\* self.read_len += len; both cursors go back to 0 once they meet
increase_read_len(b, len) ==
    IF b.read_len + len = b.write_len
    THEN [b EXCEPT !.read_len = 0, !.write_len = 0]
    ELSE [b EXCEPT !.read_len = @ + len]

\* Request::new followed by Request::body with a source of len bytes
NewMacRequest(len) ==
    [request |-> "alive", response |-> "none", result |-> "none",
     status |-> "Init", woken |-> TRUE,
     buf |-> ReadWriteBufferDefault,
     body_len |-> len, body_pos |-> 0, stalls |-> 0,
     sent_body_len |-> 0, accepted |-> <<>>, body_sent |-> FALSE,
     req_write_stream |-> "null", req_read_stream |-> "null",
     res_read_stream |-> "null"]

\* the poll returns Ready: the future is resolved and the Request, which
\* the caller awaited by value, is dropped with it
MacReady(m, result) ==
    [m EXCEPT !.request = "resolved", !.result = result, !.woken = FALSE]

\* Request::poll, Init: create the bound pair and the response stream,
\* set the clients, schedule and open the three streams, SendingBody,
\* wake_by_ref.  A null bound pair, a null response stream or a refused
\* client => Ready(Err)
MacPollInit ==
    /\ mac.request = "alive" /\ mac.woken /\ mac.status = "Init"
    /\ LET pair == [mac EXCEPT !.req_write_stream = "open",
                               !.req_read_stream = "open"]
           all == [pair EXCEPT !.res_read_stream = "open"]
       IN \/ mac' = MacReady(mac, "Err")
          \/ mac' = MacReady(pair, "Err")
          \/ mac' = MacReady(all, "Err")
          \/ mac' = [all EXCEPT !.status = "SendingBody", !.woken = TRUE]
    /\ UNCHANGED <<res, req, cli, life, hdr, unx, err, mrs, rl, rwb>>

\* read_body.poll_read(cx, buf.get_writable_slice()) returns
\* Ready(Ok(n)): the source has put its next n bytes at the start of the
\* writable slice
MacBodyRead(m, n) ==
    [m EXCEPT !.buf = increase_write_len(
                        [@ EXCEPT !.buf = [i \in 1..BUFFER_SIZE |->
                            IF i > m.buf.write_len /\ i <= m.buf.write_len + n
                            THEN m.body_pos + (i - m.buf.write_len)
                            ELSE @[i]]], n),
              !.body_pos = @ + n]

\* CFWriteStreamWrite(req_write_stream, readable slice) accepted k bytes
MacStreamWrite(m, k) ==
    [m EXCEPT !.accepted = @ \o SubSeq(get_readable_slice(m.buf), 1, k),
              !.buf = increase_read_len(@, k),
              !.sent_body_len = @ + k]

\* the end of the SendingBody arm: BodySent when the source is finished
\* and the buffer empty; wake_by_ref unless the arm waits for the stream
MacSendingBodyEnd(m, is_read_finished, is_rwbuf_fulled,
                  is_write_stream_fulled) ==
    IF is_read_finished
    THEN IF is_empty(m.buf)
         THEN [m EXCEPT !.status = "BodySent", !.body_sent = TRUE,
                        !.woken = TRUE]
         ELSE [m EXCEPT !.woken = ~is_write_stream_fulled]
    ELSE [m EXCEPT !.woken = ~(is_rwbuf_fulled /\ is_write_stream_fulled)]

\* Request::poll, SendingBody.  read stands for what the body source
\* returns (-2: not polled because the buffer is full, -1: Pending,
\* 0: Ok(0), n: Ok(n)), k for the bytes CFWriteStreamWrite accepts (0 when
\* the stream is full: the arm `0 => unreachable!()` panics and the
\* Request is dropped by the unwinding) and fulled for
\* CFWriteStreamCanAcceptBytes == 0 afterwards
MacPollSendingBody ==
    /\ mac.request = "alive" /\ mac.woken /\ mac.status = "SendingBody"
    /\ \E read \in -2..BUFFER_SIZE, fulled \in BOOLEAN :
         /\ read = -2 <=> is_full(mac.buf)
         /\ read = -1 => mac.stalls < MaxStall
         /\ read = 0 => mac.body_pos = mac.body_len
         /\ read > 0 => read <= Min(get_writable_len(mac.buf),
                                    mac.body_len - mac.body_pos)
         /\ LET m1 == IF read > 0 THEN MacBodyRead(mac, read)
                      ELSE IF read = -1
                      THEN [mac EXCEPT !.stalls = @ + 1]
                      ELSE mac
            IN IF is_readable(m1.buf)
               THEN \E k \in 0..get_readable_len(m1.buf) :
                      mac' = IF k = 0 THEN MacReady(m1, "Panic")
                             ELSE MacSendingBodyEnd(MacStreamWrite(m1, k),
                                      read = 0, read = -2, fulled)
               ELSE /\ ~fulled
                    /\ mac' = MacSendingBodyEnd(m1, read = 0, read = -2,
                                                FALSE)
    /\ UNCHANGED <<res, req, cli, life, hdr, unx, err, mrs, rl, rwb>>

\* Request::poll, SendingBody: read_body returns Ready(Err) or
\* CFWriteStreamWrite returns -1 => Ready(Err)
MacPollSendingBodyErr ==
    /\ mac.request = "alive" /\ mac.woken /\ mac.status = "SendingBody"
    /\ mac' = MacReady(mac, "Err")
    /\ UNCHANGED <<res, req, cli, life, hdr, unx, err, mrs, rl, rwb>>

\* request_write_status_callback, kCFStreamEventCanAcceptBytes, while the
\* write stream has its client: status = SendingBody, wake
MacWriteCallback ==
    /\ mac.request = "alive" /\ mac.req_write_stream = "open"
    /\ mac.status \in {"SendingBody", "BodySent"}
    /\ mac' = [mac EXCEPT !.status = "SendingBody", !.woken = TRUE]
    /\ UNCHANGED <<res, req, cli, life, hdr, unx, err, mrs, rl, rwb>>

\* Request::poll, BodySent: clear the clients of the request streams,
\* CFWriteStreamClose(req_write_stream), Ready(Ok(Response)) with
\* res_read_stream
MacPollBodySent ==
    /\ mac.request = "alive" /\ mac.woken /\ mac.status = "BodySent"
    /\ mac' = [MacReady(mac, "Response") EXCEPT
                 !.req_write_stream = "closed", !.response = "alive"]
    /\ UNCHANGED <<res, req, cli, life, hdr, unx, err, mrs, rl, rwb>>

\* the Request is dropped before its future resolved; it has no Drop and
\* its stream fields are raw pointers
MacDropRequest ==
    /\ mac.request = "alive"
    /\ mac' = [mac EXCEPT !.request = "dropped", !.woken = FALSE]
    /\ UNCHANGED <<res, req, cli, life, hdr, unx, err, mrs, rl, rwb>>

\* Response::poll_read, FinishedData: CFReadStreamClose and CFRelease of
\* res_read_stream, Ready(Ok(0))
MacPollFinishedData ==
    /\ mac.response = "alive" /\ mac.res_read_stream = "open"
    /\ mac' = [mac EXCEPT !.res_read_stream = "released"]
    /\ UNCHANGED <<res, req, cli, life, hdr, unx, err, mrs, rl, rwb>>

\* the Response is dropped; it has no Drop and res_read_stream is a raw
\* pointer
MacDropResponse ==
    /\ mac.response = "alive"
    /\ mac' = [mac EXCEPT !.response = "dropped"]
    /\ UNCHANGED <<res, req, cli, life, hdr, unx, err, mrs, rl, rwb>>

(* ======================== Windows header parsing ======================= *)
(* Response::recv of windows/mod.rs (WinHTTPResponse::recv of              *)
(* windows/response.rs is the same code) and ResponseBody::header.  Text   *)
(* is a sequence of one-character strings.  Fields of hdr:                 *)
(*   status_code  the status code the server sent                          *)
(*   pairs        the (name, value) header fields the server sent          *)
(*   raw_headers  ctx.raw_headers: the text WinHTTP hands over             *)
(*   pc           "start", "lines" (the for loop), "done"                  *)
(*   rest         headers_lines: the lines not yet consumed                *)
(*   code         the parsed status code                                   *)
(*   headers      parsed_headers / ResponseBody.headers                    *)
(*   query, found the last ResponseBody::header call and its result        *)

\* header names and values a server sends
HeaderNames == {<<"a">>, <<"A">>, <<"b">>}
HeaderValues == {<<"1">>, <<"2">>}
StatusCodes == {200, 404}

Digits == <<"0", "1", "2", "3", "4", "5", "6", "7", "8", "9">>

IsDigit(c) == \E d \in 1..10 : Digits[d] = c

DigitValue(c) == (CHOOSE d \in 1..10 : Digits[d] = c) - 1

\* the decimal text of n, as the server writes it on the status line
RECURSIVE FormatNumber(_)
FormatNumber(n) ==
    IF n < 10 THEN <<Digits[n + 1]>>
    ELSE FormatNumber(n \div 10) \o <<Digits[(n % 10) + 1]>>

\* the raw header text of a response: status line, one "Name: value"
\* line per field, each ended by eol, and the empty line that ends
\* WinHTTP's raw headers
RECURSIVE FormatFields(_, _)
FormatFields(pairs, eol) ==
    IF pairs = <<>> THEN <<>>
    ELSE Head(pairs)[1] \o <<":", " ">> \o Head(pairs)[2] \o eol
         \o FormatFields(Tail(pairs), eol)

FormatRawHeaders(status_code, pairs, eol) ==
    <<"H", "/", "1">> \o <<" ">> \o FormatNumber(status_code)
        \o <<" ">> \o <<"O", "K">> \o eol
        \o FormatFields(pairs, eol) \o eol

\* x.parse::<u16>().unwrap_or(0): decimal digits, at least one, after an
\* optional "+", no overflow of 16 bits; anything else gives 0
RECURSIVE ParseDigits(_, _)
ParseDigits(t, acc) ==
    IF t = <<>> THEN acc
    ELSE IF ~IsDigit(Head(t)) \/ acc = -1 THEN -1
    ELSE LET v == acc * 10 + DigitValue(Head(t)) IN
           IF v > 65535 THEN -1 ELSE ParseDigits(Tail(t), v)

ParseU16OrZero(t) ==
    LET d == IF t # <<>> /\ Head(t) = "+" THEN Tail(t) ELSE t
    IN IF d = <<>> \/ ParseDigits(d, 0) = -1 THEN 0 ELSE ParseDigits(d, 0)

\* str::lines: split at "\n", the last line needs none, and a "\r" before
\* the "\n" belongs to the line ending
StripCR(line) ==
    IF line # <<>> /\ line[Len(line)] = "\r"
    THEN SubSeq(line, 1, Len(line) - 1) ELSE line

RECURSIVE LinesFrom(_, _)
LinesFrom(text, line) ==
    IF text = <<>> THEN (IF line = <<>> THEN <<>> ELSE <<line>>)
    ELSE IF Head(text) = "\n"
    THEN <<StripCR(line)>> \o LinesFrom(Tail(text), <<>>)
    ELSE LinesFrom(Tail(text), Append(line, Head(text)))

Lines(text) == LinesFrom(text, <<>>)

\* x.split(' '): the pieces between single spaces, empty ones included
RECURSIVE SplitFrom(_, _)
SplitFrom(text, piece) ==
    IF text = <<>> THEN <<piece>>
    ELSE IF Head(text) = " "
    THEN <<piece>> \o SplitFrom(Tail(text), <<>>)
    ELSE SplitFrom(Tail(text), Append(piece, Head(text)))

Split(text) == SplitFrom(text, <<>>)

\* SplitOncePos that splits at the first ":" whatever follows it
SplitOncePosColon(line) ==
    LET hits == {i \in 1..Len(line) : line[i] = ":"}
    IN IF hits = {} THEN 0
       ELSE CHOOSE i \in hits : \A j \in hits : i <= j

\* header.split_once(": "): the position of the first ": ", 0 if none
SplitOncePos(line) ==
    LET hits == {i \in 1..(Len(line) - 1) :
                    line[i] = ":" /\ line[i + 1] = " "}
    IN IF hits = {} THEN 0
       ELSE CHOOSE i \in hits : \A j \in hits : i <= j

IsSpace(c) == c \in {" ", "\r", "\n", "\t"}

\* str::trim
RECURSIVE TrimStart(_)
TrimStart(t) ==
    IF t # <<>> /\ IsSpace(Head(t)) THEN TrimStart(Tail(t)) ELSE t

RECURSIVE TrimEnd(_)
TrimEnd(t) ==
    IF t # <<>> /\ IsSpace(t[Len(t)])
    THEN TrimEnd(SubSeq(t, 1, Len(t) - 1)) ELSE t

Trim(t) == TrimEnd(TrimStart(t))

\* the map after the loop body ran for (key, value), with the map keyed
\* by the name in lower case
MergeHeaderFolded(headers, key, value) ==
    LET k == [i \in 1..Len(key) |-> IF key[i] = "A" THEN "a" ELSE key[i]]
    IN IF k \in DOMAIN headers
       THEN [headers EXCEPT ![k] = @ \o <<";", " ">> \o value]
       ELSE [n \in DOMAIN headers \cup {k} |->
               IF n = k THEN value ELSE headers[n]]

\* if let Some(exist_header) = parsed_headers.get_mut(key) { push "; " and
\* the value } else { insert(key, value) }
MergeHeader(headers, key, value) ==
    IF key \in DOMAIN headers
    THEN [headers EXCEPT ![key] = @ \o <<";", " ">> \o value]
    ELSE [n \in DOMAIN headers \cup {key} |->
            IF n = key THEN value ELSE headers[n]]

\* the empty HashMap
NoHeaders == [n \in {} |-> <<>>]

\* a Response whose body has been read to the end, about to parse
NewRecv(status_code, pairs, eol) ==
    [status_code |-> status_code, pairs |-> pairs,
     raw_headers |-> FormatRawHeaders(status_code, pairs, eol),
     pc |-> "start", rest |-> <<>>, code |-> 0, headers |-> NoHeaders,
     query |-> <<>>, found |-> "unasked"]

\* first lines a server may send, each with the status code recv is to
\* report for it: a well-formed one, one with a signed number, and the
\* ones that have no second token or one that is not a u16 number
StatusLines ==
    {[text |-> <<"H", "/", "1", " ", "4", "0", "4", " ", "O", "K">>, code |-> 404],
     [text |-> <<"H", "/", "1", " ", "+", "7", " ", "O", "K">>, code |-> 7],
     [text |-> <<"H", "/", "1">>, code |-> 0],
     [text |-> <<"H", "/", "1", " ", "O", "K">>, code |-> 0],
     [text |-> <<"H", "/", "1", " ", "7", "0", "0", "0", "0", " ", "O", "K">>, code |-> 0],
     [text |-> <<"H", "/", "1", " ", "-", "1", " ", "O", "K">>, code |-> 0],
     [text |-> <<"H", "/", "1", " ", " ", "2", "0", "0">>, code |-> 0]}

\* lines a server may send after the first, each with the header fields
\* it carries: none when the line does not contain ": "
HeaderLines ==
    {[text |-> <<"a", ":", " ", "1">>, fields |-> <<<<<<"a">>, <<"1">>>>>>],
     [text |-> <<"a", ":", " ", "2">>, fields |-> <<<<<<"a">>, <<"2">>>>>>],
     [text |-> <<"b", ":", "2">>, fields |-> <<>>],
     [text |-> <<"b", " ", "1">>, fields |-> <<>>],
     [text |-> <<>>, fields |-> <<>>]}

\* sequences of up to n such lines
RECURSIVE HeaderLineSeqs(_)
HeaderLineSeqs(n) ==
    IF n = 0 THEN {<<>>}
    ELSE LET shorter == HeaderLineSeqs(n - 1) IN
           shorter \cup {Append(ls, l) : ls \in shorter, l \in HeaderLines}

RECURSIVE FormatLines(_, _)
FormatLines(lines, eol) ==
    IF lines = <<>> THEN <<>>
    ELSE Head(lines).text \o eol \o FormatLines(Tail(lines), eol)

RECURSIVE FieldsOf(_)
FieldsOf(lines) ==
    IF lines = <<>> THEN <<>>
    ELSE Head(lines).fields \o FieldsOf(Tail(lines))

\* a Response whose body has been read to the end, with the raw header
\* text made of the given first line and lines; status_code and pairs
\* keep the code and the fields that text carries
NewRecvRaw(first, lines, eol) ==
    [NewRecv(first.code, FieldsOf(lines), eol) EXCEPT
        !.raw_headers = first.text \o eol \o FormatLines(lines, eol)
                            \o eol]

\* a Response whose raw header text is empty
NewRecvEmpty ==
    [NewRecv(0, <<>>, <<"\n">>) EXCEPT !.raw_headers = <<>>]

\* status_code = headers_lines.next().and_then(|x| x.split(' ').nth(1)
\*     .map(|x| x.parse::<u16>().unwrap_or(0))).unwrap_or(0)
RecvStatusLine ==
    /\ hdr.pc = "start"
    /\ LET lines == Lines(hdr.raw_headers)
           tokens == IF lines = <<>> THEN <<>> ELSE Split(Head(lines))
       IN hdr' = [hdr EXCEPT
                    !.pc = "lines",
                    !.rest = IF lines = <<>> THEN <<>> ELSE Tail(lines),
                    !.code = IF Len(tokens) >= 2
                             THEN ParseU16OrZero(tokens[2]) ELSE 0]
    /\ UNCHANGED <<res, req, cli, life, mac, unx, err, mrs, rl, rwb>>

\* one turn of `for header in headers_lines`
RecvHeaderLine ==
    /\ hdr.pc = "lines" /\ hdr.rest # <<>>
    /\ LET header == Head(hdr.rest)
           at == SplitOncePos(header)
       IN hdr' = [hdr EXCEPT
                    !.rest = Tail(@),
                    !.headers =
                       IF at = 0 THEN @
                       ELSE MergeHeader(@,
                              Trim(SubSeq(header, 1, at - 1)),
                              Trim(SubSeq(header, at + 2, Len(header))))]
    /\ UNCHANGED <<res, req, cli, life, mac, unx, err, mrs, rl, rwb>>

\* Ok(ResponseBody { data, code: status_code, headers: parsed_headers })
RecvReturn ==
    /\ hdr.pc = "lines" /\ hdr.rest = <<>>
    /\ hdr' = [hdr EXCEPT !.pc = "done"]
    /\ UNCHANGED <<res, req, cli, life, mac, unx, err, mrs, rl, rwb>>

\* x.eq_ignore_ascii_case(header)
EqIgnoreAsciiCase(x, y) ==
    LET lower(t) == [i \in 1..Len(t) |-> IF t[i] = "A" THEN "a" ELSE t[i]]
    IN lower(x) = lower(y)

\* ResponseBody::header: self.headers.keys().find(eq_ignore_ascii_case),
\* then the value of that key; keys() of a HashMap come in an arbitrary
\* order, so find returns any of the matching keys
ResponseBodyHeader ==
    /\ hdr.pc = "done"
    /\ \E header \in HeaderNames :
         LET matching == {k \in DOMAIN hdr.headers :
                            EqIgnoreAsciiCase(k, header)}
         IN IF matching = {}
            THEN hdr' = [hdr EXCEPT !.query = header, !.found = "None"]
            ELSE \E k \in matching :
                   hdr' = [hdr EXCEPT !.query = header,
                                      !.found = hdr.headers[k]]
    /\ UNCHANGED <<res, req, cli, life, mac, unx, err, mrs, rl, rwb>>

(* ============================= Unix backend ============================ *)
(* UnixRequest::poll of unix/request.rs and UnixResponse::recv of          *)
(* unix/response.rs.  Fields of unx:                                       *)
(*   native_code, native_headers  the response isahc resolves to: its      *)
(*                 status and the (name, value) items its HeaderMap's      *)
(*                 iter() yields, one per value; values are byte strings   *)
(*   state         RequestState                                            *)
(*   req_builder, res  whether the Option holds a value                    *)
(*   woken         the task has been woken and will poll                   *)
(*   stalls        polls of the ResponseFuture that returned Pending       *)
(*   result        what the last poll returned                             *)
(*   code, headers the fields of the UnixResponse                          *)
(*   body          "none", or "received" once recv returned ResponseBody   *)

\* http::HeaderName is lower case
UnixHeaderNames == {<<"a">>, <<"b">>}
\* header values as bytes; "0xFF" is a byte that is not valid UTF-8
UnixHeaderValues == {<<"1">>, <<"2">>, <<"0xFF">>}

NewUnixRequest(native_code, native_headers) ==
    [native_code |-> native_code, native_headers |-> native_headers,
     state |-> "Building", req_builder |-> TRUE, res |-> FALSE,
     woken |-> TRUE, stalls |-> 0, result |-> "none",
     code |-> 0, headers |-> NoHeaders, body |-> "none"]

\* String::from_utf8_lossy: invalid bytes become U+FFFD
FromUtf8Lossy(bytes) ==
    [i \in 1..Len(bytes) |-> IF bytes[i] = "0xFF" THEN "U+FFFD" ELSE bytes[i]]

\* headers.insert(name, value): the map with name set to value
HeadersInsert(headers, name, value) ==
    [n \in DOMAIN headers \cup {name} |->
       IF n = name THEN value ELSE headers[n]]

\* for (name, value) in res.headers().iter() { headers.insert(..) }
RECURSIVE CollectHeaders(_, _)
CollectHeaders(items, headers) ==
    IF items = <<>> THEN headers
    ELSE CollectHeaders(Tail(items),
           HeadersInsert(headers, Head(items)[1],
                         FromUtf8Lossy(Head(items)[2])))

UnixPolled == unx.woken /\ unx.result \notin {"Response"}

\* poll, RequestState::Building
UnixPollBuilding ==
    /\ UnixPolled /\ unx.state = "Building"
    /\ IF unx.req_builder
       THEN \E built \in BOOLEAN :
              unx' = IF built
                     THEN [unx EXCEPT !.req_builder = FALSE, !.res = TRUE,
                                      !.state = "Recv", !.woken = TRUE,
                                      !.result = "Pending"]
                     ELSE [unx EXCEPT !.req_builder = FALSE,
                                      !.result = "Err"]
       ELSE unx' = [unx EXCEPT !.result = "Err"]
    /\ UNCHANGED <<res, req, cli, life, mac, hdr, err, mrs, rl, rwb>>

\* poll, RequestState::Recv, res.poll(cx) = Poll::Pending; isahc wakes
\* the task when the response makes progress
UnixPollRecvPending ==
    /\ UnixPolled /\ unx.state = "Recv" /\ unx.res
    /\ unx.stalls < MaxStall
    /\ unx' = [unx EXCEPT !.stalls = @ + 1, !.result = "Pending",
                          !.woken = TRUE]
    /\ UNCHANGED <<res, req, cli, life, mac, hdr, err, mrs, rl, rwb>>

\* poll, RequestState::Recv, res.poll(cx) = Poll::Ready(Err(_))
UnixPollRecvErr ==
    /\ UnixPolled /\ unx.state = "Recv" /\ unx.res
    /\ unx.result # "Err"
    /\ unx' = [unx EXCEPT !.result = "Err"]
    /\ UNCHANGED <<res, req, cli, life, mac, hdr, err, mrs, rl, rwb>>

\* poll, RequestState::Recv, res.poll(cx) = Poll::Ready(Ok(res))
UnixPollRecvReady ==
    /\ UnixPolled /\ unx.state = "Recv" /\ unx.res
    /\ unx.result # "Err"
    /\ unx' = [unx EXCEPT
                 !.result = "Response",
                 !.code = unx.native_code,
                 !.headers = CollectHeaders(unx.native_headers, NoHeaders)]
    /\ UNCHANGED <<res, req, cli, life, mac, hdr, err, mrs, rl, rwb>>

\* UnixResponse::recv: ResponseBody { data, code: self.code,
\* headers: self.headers }
UnixRecv ==
    /\ unx.result = "Response" /\ unx.body = "none"
    /\ unx' = [unx EXCEPT !.body = "received"]
    /\ UNCHANGED <<res, req, cli, life, mac, hdr, err, mrs, rl, rwb>>

(* ========================= Windows error mapping ======================= *)
(* resolve_io_error_from_error_code of windows/err_code.rs (the copy in    *)
(* windows/mod.rs is the same) over numeric codes.  Fields of err:         *)
(*   code           the WIN32_ERROR handed in                              *)
(*   pc             "start", "resolved"                                    *)
(*   kind           io::Error::kind() of the result                        *)
(*   raw_os_error   io::Error::raw_os_error(): <<>> for None, <<n>> for    *)
(*                  Some(n)                                                *)
(*   panicked       the function panicked                                  *)

ERROR_WINHTTP_TIMEOUT == 12002
ERROR_WINHTTP_INVALID_URL == 12005
ERROR_WINHTTP_INVALID_OPTION == 12009
ERROR_WINHTTP_CANNOT_CONNECT == 12029
ERROR_WINHTTP_CONNECTION_ERROR == 12030
ERROR_WINHTTP_HEADER_NOT_FOUND == 12150
ERROR_WINHTTP_INVALID_HEADER == 12153
ERROR_WINHTTP_HEADER_SIZE_OVERFLOW == 12182
ERROR_WINHTTP_CHUNKED_ENCODING_HEADER_SIZE_OVERFLOW == 12183
ERROR_WINHTTP_RESPONSE_DRAIN_OVERFLOW == 12184
\* system codes the standard library gives a kind of their own
ERROR_ACCESS_DENIED == 5
ERROR_NOT_ENOUGH_MEMORY == 8
ERROR_INVALID_PARAMETER == 87
\* i32::MAX
I32_MAX == 2147483647

\* the codes with an arm of the match
ListedCodes ==
    {12001, 12002, 12004, 12005, 12006, 12007, 12009, 12011, 12012, 12015,
     12017, 12018, 12019, 12029, 12030, 12032, 12037, 12038, 12044, 12045,
     12057, 12100, 12101, 12102, 12103, 12150, 12152, 12153, 12154, 12155,
     12156, 12157, 12166, 12167, 12169, 12170, 12172, 12175, 12176, 12177,
     12178, 12179, 12180, 12181, 12182, 12183, 12184, 12185, 12186, 12187,
     12188, 12189, 12190, 12191, 12192}

\* the ErrorKind of the arm of a listed code
ListedKind(code) ==
    CASE code = ERROR_WINHTTP_TIMEOUT -> "TimedOut"
      [] code \in {ERROR_WINHTTP_INVALID_URL, ERROR_WINHTTP_INVALID_OPTION}
            -> "InvalidInput"
      [] code = ERROR_WINHTTP_CANNOT_CONNECT -> "NotConnected"
      [] code = ERROR_WINHTTP_CONNECTION_ERROR -> "ConnectionAborted"
      [] code = ERROR_WINHTTP_HEADER_NOT_FOUND -> "NotFound"
      [] code = ERROR_WINHTTP_INVALID_HEADER -> "InvalidData"
      [] code \in {ERROR_WINHTTP_HEADER_SIZE_OVERFLOW,
                   ERROR_WINHTTP_CHUNKED_ENCODING_HEADER_SIZE_OVERFLOW,
                   ERROR_WINHTTP_RESPONSE_DRAIN_OVERFLOW} -> "OutOfMemory"
      [] OTHER -> "Other"

\* `other as _`: the u32 reinterpreted as i32
AsI32(code) == IF code > I32_MAX THEN (code - I32_MAX) - I32_MAX - 2 ELSE code

\* the kinds io::Error::from_raw_os_error(code).kind() can have: the
\* standard library decodes the system codes it knows; for the others it
\* answers Uncategorized, which toolchains before 1.55 reported as Other
DecodeErrorKinds(code) ==
    CASE code = ERROR_ACCESS_DENIED -> {"PermissionDenied"}
      [] code = ERROR_NOT_ENOUGH_MEMORY -> {"OutOfMemory"}
      [] code = ERROR_INVALID_PARAMETER -> {"InvalidInput"}
      [] OTHER -> {"Uncategorized", "Other"}

\* the io::Errors resolve_io_error_from_error_code(code) can return
ResolvedErrors(code) ==
    IF code \in ListedCodes
    THEN {[kind |-> ListedKind(code), raw_os_error |-> <<>>]}
    ELSE {[kind |-> k, raw_os_error |-> <<AsI32(code)>>] :
            k \in DecodeErrorKinds(code)}

NewErrorCode(code) ==
    [code |-> code, pc |-> "start", from |-> "none", kind |-> "none",
     raw_os_error |-> <<>>, panicked |-> FALSE]

\* resolve_io_error_from_error_code(dwError) of a REQUEST_ERROR callback
ResolveFromErrorCode ==
    /\ err.pc = "start"
    /\ \E e \in ResolvedErrors(err.code) :
         err' = [err EXCEPT !.pc = "resolved", !.from = "dwError",
                            !.kind = e.kind,
                            !.raw_os_error = e.raw_os_error]
    /\ UNCHANGED <<res, req, cli, life, mac, hdr, unx, mrs, rl, rwb>>

\* resolve_io_error(): the same on GetLastError()
ResolveIoError ==
    /\ err.pc = "start"
    /\ \E e \in ResolvedErrors(err.code) :
         err' = [err EXCEPT !.pc = "resolved", !.from = "GetLastError",
                            !.kind = e.kind,
                            !.raw_os_error = e.raw_os_error]
    /\ UNCHANGED <<res, req, cli, life, mac, hdr, unx, mrs, rl, rwb>>

(* ========================= macOS response stream ======================= *)
(* Response::poll_read and response_status_callback of macos/response.rs   *)
(* (revision "response") and of macos/mod.rs (revision "mod").  The        *)
(* callback runs on the HTTP thread's run loop, between polls.  Fields of  *)
(* mrs:                                                                    *)
(*   rev            the revision                                           *)
(*   len            the length of the response body                        *)
(*   arrived        body bytes that have reached the native stream         *)
(*   native_pos     body bytes read out of the native stream               *)
(*   end_sent, error_sent  the stream has signalled its end / an error     *)
(*   status, waker  the NetworkContext                                     *)
(*   buf, buf_size, read_size  the transfer buffer and its cursors         *)
(*   stream         res_read_stream: "open" or "closed"                    *)
(*   woken          the task has been woken and will poll                  *)
(*   stalls         polls the executor made without a wake                 *)
(*   out            the bytes poll_read has returned, in order             *)
(*   last           what the last poll_read returned                       *)
(*   closes         times the stream has been closed and released          *)
(*   eofs           polls that returned Ok(0) for the end of the stream    *)

NewMacResponse(rev, len) ==
    [rev |-> rev, len |-> len, arrived |-> 0, native_pos |-> 0,
     end_sent |-> FALSE, error_sent |-> FALSE,
     status |-> "Init", waker |-> FALSE,
     buf |-> [i \in 1..BUFFER_SIZE |-> 0], buf_size |-> 0, read_size |-> 0,
     stream |-> "open", woken |-> TRUE, stalls |-> 0, out |-> <<>>,
     last |-> "none", closes |-> 0, eofs |-> 0]

\* a poll_read call: the task has been woken and the stream has not
\* ended for the caller; the poll stores the waker if none is stored
MrsPolled == mrs.woken /\ mrs.last \notin {"Eof", "Err"}

MrsReturn(r, result, wake) ==
    [r EXCEPT !.waker = TRUE, !.last = result,
              !.woken = (wake \/ result # "Pending")]

\* response_status_callback: the status the event leaves, then the wake
ResponseStatusCallback(r, event) ==
    [r EXCEPT !.status = CASE event = "HasBytesAvailable" -> "ReceivingData"
                           [] event = "ErrorOccurred" -> "CFError"
                           [] event = "EndEncountered" -> "FinishedData"
                           [] OTHER -> @,
              !.woken = (@ \/ r.waker)]

\* NetworkStatus::Init: the stream client is set; macos/response.rs then
\* calls the callback itself with HasBytesAvailable
MrsPollInit ==
    /\ MrsPolled /\ mrs.status = "Init"
    /\ LET r == MrsReturn([mrs EXCEPT !.status = "Pending"], "Pending", FALSE)
       IN mrs' = IF mrs.rev = "response"
                 THEN ResponseStatusCallback(r, "HasBytesAvailable")
                 ELSE r
    /\ UNCHANGED <<res, req, cli, life, mac, hdr, unx, err, rl, rwb>>

\* NetworkStatus::ReceivingData with unread bytes in the transfer buffer
MrsPollCopy ==
    /\ MrsPolled /\ mrs.status = "ReceivingData"
    /\ mrs.read_size < mrs.buf_size
    /\ \E caller_len \in 1..MaxCallerBuf :
         LET read_size == Min(mrs.buf_size - mrs.read_size, caller_len) IN
           mrs' = MrsReturn(
                    [mrs EXCEPT
                       !.out = @ \o SubSeq(mrs.buf, mrs.read_size + 1,
                                           mrs.read_size + read_size),
                       !.read_size = @ + read_size],
                    "Ready", TRUE)
    /\ UNCHANGED <<res, req, cli, life, mac, hdr, unx, err, rl, rwb>>

\* the transfer buffer after the loop of CFReadStreamRead calls pulled k
\* bytes into it from its start
MrsPulled(r, k) ==
    [r EXCEPT !.read_size = 0, !.buf_size = k,
              !.buf = [i \in 1..BUFFER_SIZE |->
                          IF i <= k THEN r.native_pos + i ELSE @[i]],
              !.native_pos = @ + k,
              !.arrived = IF @ < r.native_pos + k THEN r.native_pos + k
                          ELSE @]

\* NetworkStatus::ReceivingData, buffer consumed, CFReadStreamHasBytes-
\* Available: the cursors are reset and CFReadStreamRead is called until
\* the buffer is full or a read returns 0 (each read waits for bytes or
\* the end of the stream); the poll wakes itself and returns Pending
MrsPollRead ==
    /\ MrsPolled /\ mrs.status = "ReceivingData"
    /\ mrs.read_size >= mrs.buf_size
    /\ mrs.arrived > mrs.native_pos
    /\ mrs' = MrsReturn(
                MrsPulled(mrs, Min(BUFFER_SIZE, mrs.len - mrs.native_pos)),
                "Pending", TRUE)
    /\ UNCHANGED <<res, req, cli, life, mac, hdr, unx, err, rl, rwb>>

\* the same, a CFReadStreamRead returning -1 after k bytes
MrsPollReadErr ==
    /\ MrsPolled /\ mrs.status = "ReceivingData"
    /\ mrs.read_size >= mrs.buf_size
    /\ mrs.arrived > mrs.native_pos
    /\ \E k \in 0..(Min(BUFFER_SIZE, mrs.len - mrs.native_pos) - 1) :
         mrs' = MrsReturn(MrsPulled(mrs, k), "Err", FALSE)
    /\ UNCHANGED <<res, req, cli, life, mac, hdr, unx, err, rl, rwb>>

\* NetworkStatus::ReceivingData, buffer consumed, no bytes available
MrsPollWait ==
    /\ MrsPolled /\ mrs.status = "ReceivingData"
    /\ mrs.read_size >= mrs.buf_size
    /\ mrs.arrived <= mrs.native_pos
    /\ mrs' = MrsReturn([mrs EXCEPT !.status = "Pending"], "Pending", FALSE)
    /\ UNCHANGED <<res, req, cli, life, mac, hdr, unx, err, rl, rwb>>

\* NetworkStatus::FinishedData: Ok(0); macos/response.rs calls
\* CFReadStreamClose and CFRelease on the stream first.  The arm leaves the
\* status alone, so a caller that polls again after the end of the stream
\* takes it again; closes counts the close-and-release pairs, eofs the
\* polls answered Ok(0)
MrsPollFinishedData ==
    /\ mrs.woken /\ mrs.last # "Err" /\ mrs.status = "FinishedData"
    /\ mrs.eofs < MaxEofPolls
    /\ mrs' = MrsReturn(
                [mrs EXCEPT !.stream = IF mrs.rev = "response"
                                       THEN "closed" ELSE @,
                            !.closes = IF mrs.rev = "response"
                                       THEN @ + 1 ELSE @,
                            !.eofs = @ + 1],
                "Eof", TRUE)
    /\ UNCHANGED <<res, req, cli, life, mac, hdr, unx, err, rl, rwb>>

\* NetworkStatus::CFError
MrsPollCFError ==
    /\ MrsPolled /\ mrs.status = "CFError"
    /\ mrs' = MrsReturn(mrs, "Err", TRUE)
    /\ UNCHANGED <<res, req, cli, life, mac, hdr, unx, err, rl, rwb>>

\* NetworkStatus::Pending: no callback has come since the last poll, the
\* executor polls the task without a wake
MrsPollPending ==
    /\ mrs.last = "Pending" /\ mrs.status = "Pending"
    /\ mrs.stalls < MaxStall
    /\ mrs' = MrsReturn([mrs EXCEPT !.stalls = @ + 1], "Pending", FALSE)
    /\ UNCHANGED <<res, req, cli, life, mac, hdr, unx, err, rl, rwb>>

\* the stream's client has been set and the stream is open
MrsClientSet == mrs.status # "Init" /\ mrs.stream = "open"

\* body bytes reach the stream: kCFStreamEventHasBytesAvailable
MrsHasBytesAvailable ==
    /\ MrsClientSet /\ ~mrs.error_sent
    /\ mrs.arrived < mrs.len
    /\ \E n \in 1..(mrs.len - mrs.arrived) :
         mrs' = ResponseStatusCallback([mrs EXCEPT !.arrived = @ + n],
                                       "HasBytesAvailable")
    /\ UNCHANGED <<res, req, cli, life, mac, hdr, unx, err, rl, rwb>>

\* the last byte has been read from the stream:
\* kCFStreamEventEndEncountered
MrsEndEncountered ==
    /\ MrsClientSet /\ ~mrs.error_sent /\ ~mrs.end_sent
    /\ mrs.native_pos = mrs.len
    /\ mrs' = ResponseStatusCallback([mrs EXCEPT !.end_sent = TRUE],
                                     "EndEncountered")
    /\ UNCHANGED <<res, req, cli, life, mac, hdr, unx, err, rl, rwb>>

\* the stream fails: kCFStreamEventErrorOccurred
MrsErrorOccurred ==
    /\ MrsClientSet /\ ~mrs.error_sent /\ ~mrs.end_sent
    /\ mrs' = ResponseStatusCallback([mrs EXCEPT !.error_sent = TRUE],
                                     "ErrorOccurred")
    /\ UNCHANGED <<res, req, cli, life, mac, hdr, unx, err, rl, rwb>>

(* ========================== macOS run-loop thread ====================== *)
(* get_or_spawn_http_thread of macos/run_loop.rs (revision "run_loop") and *)
(* of macos/mod.rs (revision "mod").  A run loop is named after the        *)
(* caller whose spawn created its thread; 0 is the null pointer.  Fields   *)
(* of rl:                                                                  *)
(*   rev       the revision                                                *)
(*   loop      HTTP_THREAD_LOOP                                            *)
(*   pc        where each caller is: "load", "spawn", "recv", "reload",    *)
(*             "done"                                                      *)
(*   result    what each caller was returned (0 before it returns, and     *)
(*             when it is returned null)                                   *)
(*   thread    the thread each caller spawned: "none", "started",          *)
(*             "published" (it has stored its run loop), "running" (it has *)
(*             signalled its spawner and runs the loop), "exited"          *)

Threads == 1..NThreads

NewRunLoop(r) ==
    [rev |-> r, loop |-> 0,
     pc |-> [c \in Threads |-> "load"],
     result |-> [c \in Threads |-> 0],
     thread |-> [c \in Threads |-> "none"]]

\* let thread_loop = HTTP_THREAD_LOOP.load(SeqCst);
\* if thread_loop.is_null() { .. } else { thread_loop }
RlLoad(c) ==
    /\ rl.pc[c] = "load"
    /\ rl' = IF rl.loop = 0
             THEN [rl EXCEPT !.pc[c] = "spawn"]
             ELSE [rl EXCEPT !.pc[c] = "done", !.result[c] = rl.loop]
    /\ UNCHANGED <<res, req, cli, life, mac, hdr, unx, err, mrs, rwb>>

\* std::thread::spawn(move || ..)
RlSpawn(c) ==
    /\ rl.pc[c] = "spawn"
    /\ rl' = [rl EXCEPT !.pc[c] = "recv", !.thread[c] = "started"]
    /\ UNCHANGED <<res, req, cli, life, mac, hdr, unx, err, mrs, rwb>>

\* in the new thread: HTTP_THREAD_LOOP.swap(CFRunLoopGetCurrent(), SeqCst)
RlThreadPublish(c) ==
    /\ rl.thread[c] = "started"
    /\ rl' = [rl EXCEPT !.loop = c, !.thread[c] = "published"]
    /\ UNCHANGED <<res, req, cli, life, mac, hdr, unx, err, mrs, rwb>>

\* in the new thread: sx.send(()), the timer, CFRunLoopRun()
RlThreadSend(c) ==
    /\ rl.thread[c] = "published"
    /\ rl' = [rl EXCEPT !.thread[c] = "running"]
    /\ UNCHANGED <<res, req, cli, life, mac, hdr, unx, err, mrs, rwb>>

\* rx.recv().unwrap() returns once the thread has sent
RlRecv(c) ==
    /\ rl.pc[c] = "recv" /\ rl.thread[c] \in {"running", "exited"}
    /\ rl' = [rl EXCEPT !.pc[c] = "reload"]
    /\ UNCHANGED <<res, req, cli, life, mac, hdr, unx, err, mrs, rwb>>

\* let thread_loop = HTTP_THREAD_LOOP.load(SeqCst); thread_loop
RlReload(c) ==
    /\ rl.pc[c] = "reload"
    /\ rl' = [rl EXCEPT !.pc[c] = "done", !.result[c] = rl.loop]
    /\ UNCHANGED <<res, req, cli, life, mac, hdr, unx, err, mrs, rwb>>

\* CFRunLoopRun() returns and the thread ends with
\* HTTP_THREAD_LOOP.swap(null, SeqCst).  The timer of macos/mod.rs has
\* interval 0 and fires once, after which a run loop with no stream
\* scheduled has nothing left to wait for; the timer of macos/run_loop.rs
\* repeats
RlThreadExit(c) ==
    /\ rl.rev = "mod" /\ rl.thread[c] = "running"
    /\ rl' = [rl EXCEPT !.loop = 0, !.thread[c] = "exited"]
    /\ UNCHANGED <<res, req, cli, life, mac, hdr, unx, err, mrs, rwb>>

(* ======================== macOS ReadWriteBuffer ======================== *)
(* A ReadWriteBuffer<BUFFER_SIZE> of macos/rwbuf.rs used on its own.       *)
(* Fields of rwb:                                                          *)
(*   b       the buffer                                                    *)
(*   calls   the calls made on it so far, <<"w", n>> for a write of n      *)
(*           bytes into the writable slice followed by                     *)
(*           increase_write_len(n), <<"r", m>> for increase_read_len(m)    *)

NewReadWriteBuffer == [b |-> ReadWriteBufferDefault, calls |-> <<>>]

\* the caller fills the first n bytes of get_writable_slice() and calls
\* increase_write_len(n), 1 <= n <= get_writable_len()
RwbIncreaseWriteLen(n) ==
    /\ Len(rwb.calls) < MaxBufferCalls
    /\ 1 <= n /\ n <= get_writable_len(rwb.b)
    /\ rwb' = [b |-> increase_write_len(
                       [rwb.b EXCEPT !.buf = [i \in 1..BUFFER_SIZE |->
                          IF i > rwb.b.write_len /\ i <= rwb.b.write_len + n
                          THEN Len(rwb.calls) + 1 ELSE @[i]]], n),
               calls |-> Append(rwb.calls, <<"w", n>>)]
    /\ UNCHANGED <<res, req, cli, life, mac, hdr, unx, err, mrs, rl>>

\* the caller consumes m bytes of get_readable_slice() and calls
\* increase_read_len(m), 1 <= m <= get_readable_len()
RwbIncreaseReadLen(m) ==
    /\ Len(rwb.calls) < MaxBufferCalls
    /\ 1 <= m /\ m <= get_readable_len(rwb.b)
    /\ rwb' = [b |-> increase_read_len(rwb.b, m),
               calls |-> Append(rwb.calls, <<"r", m>>)]
    /\ UNCHANGED <<res, req, cli, life, mac, hdr, unx, err, mrs, rl>>

(* ============================ specifications ========================== *)

NextRes ==
    \/ ResPollLoad
    \/ ResPollStore
    \/ ResPollInit
    \/ ResPollDataAvailable
    \/ ResPollDataWritten
    \/ ResPollError
    \/ ResPollOther
    \/ ChPollEnter
    \/ ChPollCompleted
    \/ ChPollCopy
    \/ ChPollRecvEmpty
    \/ ChPollRecvEvent
    \/ NativeDataAvailable
    \/ NativeReadComplete
    \/ NativeRequestError
    \/ NativeCancelled
    \/ NativeNotify
    \/ ResStatusCallback
    \/ ResChannelCallback

InitRes ==
    /\ \E r \in {"status", "channel"} : res = NewResponse(r)
    /\ req = NewRequest(0)
    /\ cli = NewClient
    /\ life = NewLife
    /\ mac = NewMacRequest(0)
    /\ hdr = NewRecv(200, <<>>, <<"\n">>)
    /\ unx = NewUnixRequest(200, <<>>)
    /\ err = NewErrorCode(0)
    /\ mrs = NewMacResponse("response", 0)
    /\ rl = NewRunLoop("run_loop")
    /\ rwb = NewReadWriteBuffer

SpecRes == InitRes /\ [][NextRes]_vars

ReqPollStep ==
    \/ ReqPollLoad
    \/ ReqPollStore
    \/ ReqPollInit
    \/ ReqPollWriteCompleted
    \/ ReqPollBodySent
    \/ ReqPollHeadersReceived
    \/ ReqPollError
    \/ ReqPollOther

ReqNativeStep ==
    \/ NativeSendComplete
    \/ NativeWriteComplete
    \/ NativeHeadersAvailable
    \/ NativeSendError

\* the request with a body source that is always ready
NextReqReady ==
    \/ ReqPollStep
    \/ ReqNativeStep
    \/ NativeSendNotify
    \/ ReqStatusCallback

NextReq ==
    \/ NextReqReady
    \/ ReqPollBodyPending
    \/ ReqBodyWake

InitReq ==
    /\ \E len \in 0..MaxBody : req = NewRequest(len)
    /\ res = NewResponse("status")
    /\ cli = NewClient
    /\ life = NewLife
    /\ mac = NewMacRequest(0)
    /\ hdr = NewRecv(200, <<>>, <<"\n">>)
    /\ unx = NewUnixRequest(200, <<>>)
    /\ err = NewErrorCode(0)
    /\ mrs = NewMacResponse("response", 0)
    /\ rl = NewRunLoop("run_loop")
    /\ rwb = NewReadWriteBuffer

SpecReq == InitReq /\ [][NextReq]_vars

\* the executor polls a woken task, the native stack completes every
\* operation it was given and runs the callback of every completion
FairSpecReq ==
    /\ InitReq
    /\ [][NextReqReady]_vars
    /\ WF_vars(ReqPollStep)
    /\ WF_vars(ReqNativeStep)
    /\ WF_vars(ReqStatusCallback)

\* the same executor and native stack, with a body source that may return
\* Pending and that invokes the waker it was given once it has data again
FairSpecReqBody ==
    /\ InitReq
    /\ [][NextReq]_vars
    /\ WF_vars(ReqPollStep \/ ReqPollBodyPending)
    /\ WF_vars(ReqNativeStep)
    /\ WF_vars(ReqStatusCallback)
    /\ WF_vars(ReqBodyWake)

\* a request and then the response it resolved to: the response is read
\* once Request::poll has returned it; the request has no body or the
\* longest one
NextExchange ==
    \/ NextReqReady
    \/ req.resolved = "Response" /\ NextRes

InitExchange ==
    /\ \E len \in {0, MaxBody} : req = NewRequest(len)
    /\ \E r \in {"status", "channel"} : res = NewResponse(r)
    /\ cli = NewClient
    /\ life = NewLife
    /\ mac = NewMacRequest(0)
    /\ hdr = NewRecv(200, <<>>, <<"\n">>)
    /\ unx = NewUnixRequest(200, <<>>)
    /\ err = NewErrorCode(0)
    /\ mrs = NewMacResponse("response", 0)
    /\ rl = NewRunLoop("run_loop")
    /\ rwb = NewReadWriteBuffer

SpecExchange == InitExchange /\ [][NextExchange]_vars

NextRunLoop ==
    \/ \E c \in Threads : RlLoad(c)
    \/ \E c \in Threads : RlSpawn(c)
    \/ \E c \in Threads : RlThreadPublish(c)
    \/ \E c \in Threads : RlThreadSend(c)
    \/ \E c \in Threads : RlRecv(c)
    \/ \E c \in Threads : RlReload(c)
    \/ \E c \in Threads : RlThreadExit(c)

InitRunLoop ==
    /\ \E r \in {"run_loop", "mod"} : rl = NewRunLoop(r)
    /\ res = NewResponse("status")
    /\ req = NewRequest(0)
    /\ cli = NewClient
    /\ life = NewLife
    /\ mac = NewMacRequest(0)
    /\ hdr = NewRecv(200, <<>>, <<"\n">>)
    /\ unx = NewUnixRequest(200, <<>>)
    /\ err = NewErrorCode(0)
    /\ mrs = NewMacResponse("response", 0)
    /\ rwb = NewReadWriteBuffer

SpecRunLoop == InitRunLoop /\ [][NextRunLoop]_vars

NextBuffer ==
    \/ \E n \in 1..BUFFER_SIZE : RwbIncreaseWriteLen(n)
    \/ \E m \in 1..BUFFER_SIZE : RwbIncreaseReadLen(m)

InitBuffer ==
    /\ rwb = NewReadWriteBuffer
    /\ rl = NewRunLoop("run_loop")
    /\ res = NewResponse("status")
    /\ req = NewRequest(0)
    /\ cli = NewClient
    /\ life = NewLife
    /\ mac = NewMacRequest(0)
    /\ hdr = NewRecv(200, <<>>, <<"\n">>)
    /\ unx = NewUnixRequest(200, <<>>)
    /\ err = NewErrorCode(0)
    /\ mrs = NewMacResponse("response", 0)

SpecBuffer == InitBuffer /\ [][NextBuffer]_vars

NextCli ==
    \/ \E c \in Callers : CliLock(c)
    \/ \E c \in Callers : CliLookup(c)
    \/ \E c \in Callers : CliConnect(c)
    \/ \E c \in Callers : CliOpenRequest(c)
    \/ \E c \in Callers : CliResolve(c)
    \/ \E c \in Callers : CliDropRequest(c)
    \/ \E c \in Callers : CliDropResponse(c)
    \/ CliDropClient

InitCli ==
    /\ cli = NewClient
    /\ req = NewRequest(0)
    /\ res = NewResponse("status")
    /\ life = NewLife
    /\ mac = NewMacRequest(0)
    /\ hdr = NewRecv(200, <<>>, <<"\n">>)
    /\ unx = NewUnixRequest(200, <<>>)
    /\ err = NewErrorCode(0)
    /\ mrs = NewMacResponse("response", 0)
    /\ rl = NewRunLoop("run_loop")
    /\ rwb = NewReadWriteBuffer

SpecCli == InitCli /\ [][NextCli]_vars

NextLife ==
    \/ LifePollInit
    \/ LifePollHeadersReceived
    \/ LifePollRead
    \/ LifeDropRequestHandle
    \/ LifeDropRequestCtx
    \/ LifeDropResponseCtx
    \/ LifeDropResponseHandle
    \/ LifeNativeComplete
    \/ LifeNativeNotify
    \/ LifeNativeCancelled
    \/ LifeNativeClosing
    \/ LifeStatusCallback

InitLife ==
    /\ life = NewLife
    /\ req = NewRequest(0)
    /\ res = NewResponse("status")
    /\ cli = NewClient
    /\ mac = NewMacRequest(0)
    /\ hdr = NewRecv(200, <<>>, <<"\n">>)
    /\ unx = NewUnixRequest(200, <<>>)
    /\ err = NewErrorCode(0)
    /\ mrs = NewMacResponse("response", 0)
    /\ rl = NewRunLoop("run_loop")
    /\ rwb = NewReadWriteBuffer

SpecLife == InitLife /\ [][NextLife]_vars

NextMac ==
    \/ MacPollInit
    \/ MacPollSendingBody
    \/ MacPollSendingBodyErr
    \/ MacWriteCallback
    \/ MacPollBodySent
    \/ MacDropRequest
    \/ MacPollFinishedData
    \/ MacDropResponse

InitMac ==
    /\ \E len \in 0..MaxBody : mac = NewMacRequest(len)
    /\ life = NewLife
    /\ req = NewRequest(0)
    /\ res = NewResponse("status")
    /\ cli = NewClient
    /\ hdr = NewRecv(200, <<>>, <<"\n">>)
    /\ unx = NewUnixRequest(200, <<>>)
    /\ err = NewErrorCode(0)
    /\ mrs = NewMacResponse("response", 0)
    /\ rl = NewRunLoop("run_loop")
    /\ rwb = NewReadWriteBuffer

SpecMac == InitMac /\ [][NextMac]_vars

NextRecv ==
    \/ RecvStatusLine
    \/ RecvHeaderLine
    \/ RecvReturn
    \/ ResponseBodyHeader

\* sequences of up to n header fields
RECURSIVE FieldSeqs(_)
FieldSeqs(n) ==
    IF n = 0 THEN {<<>>}
    ELSE LET shorter == FieldSeqs(n - 1) IN
           shorter \cup {Append(ps, <<name, value>>) :
                           ps \in shorter, name \in HeaderNames,
                           value \in HeaderValues}

InitRecv ==
    /\ \E status_code \in StatusCodes, pairs \in FieldSeqs(MaxHeaderLines),
          eol \in {<<"\n">>, <<"\r", "\n">>} :
         hdr = NewRecv(status_code, pairs, eol)
    /\ mac = NewMacRequest(0)
    /\ life = NewLife
    /\ req = NewRequest(0)
    /\ res = NewResponse("status")
    /\ cli = NewClient
    /\ unx = NewUnixRequest(200, <<>>)
    /\ err = NewErrorCode(0)
    /\ mrs = NewMacResponse("response", 0)
    /\ rl = NewRunLoop("run_loop")
    /\ rwb = NewReadWriteBuffer

SpecRecv == InitRecv /\ [][NextRecv]_vars

\* the same parsing on header text that need not be well formed
InitRecvRaw ==
    /\ \/ hdr = NewRecvEmpty
       \/ \E first \in StatusLines, lines \in HeaderLineSeqs(MaxHeaderLines),
             eol \in {<<"\n">>, <<"\r", "\n">>} :
            hdr = NewRecvRaw(first, lines, eol)
    /\ mac = NewMacRequest(0)
    /\ life = NewLife
    /\ req = NewRequest(0)
    /\ res = NewResponse("status")
    /\ cli = NewClient
    /\ unx = NewUnixRequest(200, <<>>)
    /\ err = NewErrorCode(0)
    /\ mrs = NewMacResponse("response", 0)
    /\ rl = NewRunLoop("run_loop")
    /\ rwb = NewReadWriteBuffer

SpecRecvRaw == InitRecvRaw /\ [][NextRecv]_vars

NextUnix ==
    \/ UnixPollBuilding
    \/ UnixPollRecvPending
    \/ UnixPollRecvErr
    \/ UnixPollRecvReady
    \/ UnixRecv

\* the items HeaderMap::iter yields: the values of one name follow each
\* other, in the order the response carried them
RECURSIVE UnixItemSeqs(_)
UnixItemSeqs(n) ==
    IF n = 0 THEN {<<>>}
    ELSE LET shorter == UnixItemSeqs(n - 1) IN
           shorter \cup
           {Append(items, <<name, value>>) :
              items \in shorter, name \in UnixHeaderNames,
              value \in UnixHeaderValues}

UnixGrouped(items) ==
    \A i, j, k \in 1..Len(items) :
       (i < j /\ j < k /\ items[i][1] = items[k][1])
          => items[j][1] = items[i][1]

InitUnix ==
    /\ \E native_code \in StatusCodes,
          native_headers \in {q \in UnixItemSeqs(MaxUnixFields) :
                                UnixGrouped(q)} :
         unx = NewUnixRequest(native_code, native_headers)
    /\ hdr = NewRecv(200, <<>>, <<"\n">>)
    /\ mac = NewMacRequest(0)
    /\ life = NewLife
    /\ req = NewRequest(0)
    /\ res = NewResponse("status")
    /\ cli = NewClient
    /\ err = NewErrorCode(0)
    /\ mrs = NewMacResponse("response", 0)
    /\ rl = NewRunLoop("run_loop")
    /\ rwb = NewReadWriteBuffer

SpecUnix == InitUnix /\ [][NextUnix]_vars

NextErr ==
    \/ ResolveFromErrorCode
    \/ ResolveIoError

\* the codes tried: every listed one, the system codes up to
\* MaxSystemCode, and the largest one that is not negative as i32
ErrorCodes == ListedCodes \cup 0..MaxSystemCode \cup {I32_MAX}

InitErr ==
    /\ \E code \in ErrorCodes : err = NewErrorCode(code)
    /\ unx = NewUnixRequest(200, <<>>)
    /\ hdr = NewRecv(200, <<>>, <<"\n">>)
    /\ mac = NewMacRequest(0)
    /\ life = NewLife
    /\ req = NewRequest(0)
    /\ res = NewResponse("status")
    /\ cli = NewClient
    /\ mrs = NewMacResponse("response", 0)
    /\ rl = NewRunLoop("run_loop")
    /\ rwb = NewReadWriteBuffer

SpecErr == InitErr /\ [][NextErr]_vars

NextMacRes ==
    \/ MrsPollInit
    \/ MrsPollCopy
    \/ MrsPollRead
    \/ MrsPollReadErr
    \/ MrsPollWait
    \/ MrsPollFinishedData
    \/ MrsPollCFError
    \/ MrsPollPending
    \/ MrsHasBytesAvailable
    \/ MrsEndEncountered
    \/ MrsErrorOccurred

InitMacRes ==
    /\ \E rev \in {"response", "mod"}, len \in 0..MaxPayload :
         mrs = NewMacResponse(rev, len)
    /\ err = NewErrorCode(0)
    /\ unx = NewUnixRequest(200, <<>>)
    /\ hdr = NewRecv(200, <<>>, <<"\n">>)
    /\ mac = NewMacRequest(0)
    /\ life = NewLife
    /\ req = NewRequest(0)
    /\ res = NewResponse("status")
    /\ cli = NewClient
    /\ rl = NewRunLoop("run_loop")
    /\ rwb = NewReadWriteBuffer

SpecMacRes == InitMacRes /\ [][NextMacRes]_vars

(* ================================ claims =============================== *)

\* C1: the bytes successive poll_read calls have returned are, in order,
\* the bytes the native layer has delivered: at every moment a prefix of
\* them, and all of them once poll_read has returned Ok(0) at the end of
\* the data; no byte is duplicated, dropped or reordered.
C1_RoundTrip ==
    /\ IsPrefix(res.out, Payload(res.native_pos))
    /\ res.eof_seen => res.out = Payload(res.native_pos)

\* the whole payload, delivered in several chunks, has been read to the end
C1_Witness ==
    /\ res.eof_seen
    /\ res.native_pos = MaxPayload
    /\ res.out = Payload(MaxPayload)

\* C2: once a poll_read has returned Ok(0) at the end of the data, every
\* later poll_read returns Ok(0) as well.
C2_EofSticky == res.eof_seen => res.last = "Eof"

\* C3: the bytes the native write calls have carried are, in order, the
\* bytes of the body: at every moment a prefix of the body, each byte
\* once, and the whole body once the request has moved to BodySent.
C3_BodyUpload ==
    /\ IsPrefix(req.written, Payload(req.body_len))
    /\ req.body_sent => req.written = Payload(req.body_len)

\* a body of several chunks has been written and the request has moved on
C3_Witness ==
    /\ req.body_sent
    /\ req.body_len = MaxBody
    /\ req.written = Payload(MaxBody)

\* C4: the status a poll resets to Pending is the status it has just
\* observed, and a callback deposits its event only over a status that
\* has been observed: no deposited event is overwritten unobserved.
C4_NoEventLost ==
    /\ req.pc = "store" => req.status = req.local
    /\ req.cb.ev \in {"SENDREQUEST_COMPLETE", "WRITE_COMPLETE",
                      "HEADERS_AVAILABLE", "REQUEST_ERROR"}
         => req.status \in {"Init", "Pending"}

\* C5: a request whose body source is always ready and whose native
\* operations all complete eventually resolves.
C5_EventuallyResolves == <>(req.resolved # "none")

\* C6: the native callback and a poll are never both about to access the
\* same unprotected field of the NetworkContext with one of the two
\* accesses a write.
C6_NoDataRace ==
    \A a \in ResPollAccess(res), b \in CallbackAccess(res) :
        (a[1] = b[1] /\ "w" \in {a[2], b[2]}) => a[1] \in Protected

\* C7: once a poll_read has returned the error an error callback stored,
\* every later poll_read returns an error as well.
C7_ErrorSticky == res.err_seen => res.last = "Err"

\* C8: from the error callback until the future resolves, the stored error
\* is still there for the next poll: the context's status is Error, or the
\* running poll has already taken it and is about to return it.
C8_ErrorSurfacedByNextPoll ==
    (req.err_stored /\ req.resolved = "none")
        => (req.status = "Error" \/ req.local = "Error")

\* C9: for every hostname at most one WinHttpConnect call succeeds, so
\* that without a failed call exactly one call is made however many
\* callers ask concurrently, and all callers that received a connection
\* for the hostname received the same handle.
C9_SingleConnection ==
    \A host \in Hosts :
        /\ cli.calls[host] <= cli.fails[host] + 1
        /\ \A c1, c2 \in Callers :
             ( /\ cli.callers[c1].host = host /\ cli.callers[c1].conn # 0
               /\ cli.callers[c2].host = host /\ cli.callers[c2].conn # 0 )
                 => /\ cli.callers[c1].conn = cli.callers[c2].conn
                    /\ cli.calls[host] = cli.fails[host] + 1

\* every caller asked for the same hostname and holds its connection,
\* and one connect call was made
C9_Witness ==
    \E host \in Hosts :
        /\ cli.calls[host] = 1
        /\ \A c \in Callers :
             /\ cli.callers[c].host = host
             /\ cli.callers[c].conn # 0
             /\ cli.callers[c].request

\* the live owners of handle h: cache entries, the connection a caller
\* carries from the cache to its Request, and the fields of the live
\* Requests and Responses
Holders(h) ==
    {<<"connections", host>> : host \in {x \in Hosts : cli.connections[x] = h}}
    \cup {<<"conn", c>> :
            c \in {x \in Callers : cli.callers[x].local
                                     /\ cli.callers[x].conn = h}}
    \cup {<<"Request.connection", c>> :
            c \in {x \in Callers : cli.callers[x].request
                                     /\ cli.callers[x].conn = h}}
    \cup {<<"Request.h_request", c>> :
            c \in {x \in Callers : cli.callers[x].request
                                     /\ cli.callers[x].h_request = h}}
    \cup {<<"Response._connection", c>> :
            c \in {x \in Callers : cli.callers[x].response
                                     /\ cli.callers[x].conn = h}}
    \cup {<<"Response.h_request", c>> :
            c \in {x \in Callers : cli.callers[x].response
                                     /\ cli.callers[x].h_request = h}}

C11_ContextClearedBeforeClose ==
    life.closes > 0 => life.assoc_at_close = "none"

\* C12: the status callback never reads or writes a NetworkContext that
\* has been freed.
C12_NoCallbackOnFreedContext ==
    CallbackDereferences(life.cb) => life.ctx[life.cb.ctx] # "freed"

\* C13: once a Request or a Response has been dropped before completion,
\* no native stream it opened is left open.
C13_DropReleasesResources ==
    (mac.request = "dropped" \/ mac.response = "dropped")
        => \A st \in Streams : mac[st] # "open"

\* C20: the bytes the native write stream has accepted are a prefix of the
\* body at every moment and the whole body once the request has moved to
\* BodySent; what the stream has not accepted yet is still in the buffer
\* behind the read cursor (the readable slice is the part of the body
\* that was read and not yet accepted), and sent_body_len counts exactly
\* the accepted bytes.
C20_BufferedUpload ==
    /\ IsPrefix(mac.accepted, Payload(mac.body_len))
    /\ mac.body_sent => mac.accepted = Payload(mac.body_len)
    /\ mac.accepted \o get_readable_slice(mac.buf) = Payload(mac.body_pos)
    /\ mac.sent_body_len = Len(mac.accepted)

\* a body longer than the buffer went through partial writes and the
\* request has moved to BodySent
C20_Witness ==
    /\ mac.body_sent
    /\ mac.body_len = MaxBody
    /\ mac.accepted = Payload(MaxBody)
    /\ mac.result = "Response"

\* the native write calls the stack has not completed yet
WritesOutstanding ==
    {i \in 1..Len(req.ops) : req.ops[i].op = "write"}

\* a write is outstanding, or its WRITE_COMPLETE callback has not yet
\* deposited the event
WriteInFlight ==
    WritesOutstanding # {} \/ req.cb.ev = "WRITE_COMPLETE"

\* C14: at most one native write is outstanding, and from its issue until
\* its write-complete event has been deposited no poll
\* is in the WriteCompleted arm (the only place that polls the body source
\* and hands the buffer to a write) and no step changes the transfer
\* buffer or advances the body source.
C14_OneWriteOutstanding ==
    /\ [](Cardinality(WritesOutstanding) <= 1)
    /\ [](WriteInFlight
            => ~(req.pc = "match" /\ req.local = "WriteCompleted"))
    /\ [][WriteInFlight
            => (req'.buf = req.buf /\ req'.body_pos = req.body_pos)]_vars

\* a write is outstanding while a poll, woken by a notification, runs
C14_Witness ==
    /\ WritesOutstanding # {}
    /\ req.pc = "match"
    /\ req.body_pos > 0

\* the values the server sent under exactly this name, in order
RECURSIVE ValuesOf(_, _)
ValuesOf(pairs, name) ==
    IF pairs = <<>> THEN <<>>
    ELSE (IF Head(pairs)[1] = name THEN <<Head(pairs)[2]>> ELSE <<>>)
         \o ValuesOf(Tail(pairs), name)

\* the values the server sent under this name in any letter case
RECURSIVE ValuesOfAnyCase(_, _)
ValuesOfAnyCase(pairs, name) ==
    IF pairs = <<>> THEN <<>>
    ELSE (IF EqIgnoreAsciiCase(Head(pairs)[1], name)
          THEN <<Head(pairs)[2]>> ELSE <<>>)
         \o ValuesOfAnyCase(Tail(pairs), name)

\* values joined with "; "
RECURSIVE Joined(_)
Joined(values) ==
    IF Len(values) = 1 THEN values[1]
    ELSE values[1] \o <<";", " ">> \o Joined(Tail(values))

\* C15: when recv returns, the status code is the number on the status
\* line, and the mapping holds exactly the names that occur on a header
\* line, each with the values of its lines joined by "; " in order.
C15_HeaderParsing ==
    hdr.pc = "done" =>
        /\ hdr.code = hdr.status_code
        /\ DOMAIN hdr.headers = {hdr.pairs[i][1] : i \in 1..Len(hdr.pairs)}
        /\ \A name \in DOMAIN hdr.headers :
             hdr.headers[name] = Joined(ValuesOf(hdr.pairs, name))

\* two lines "a: 1" and "a: 2" (and one more) were parsed into "1; 2"
C15_Witness ==
    /\ hdr.pc = "done"
    /\ Len(hdr.pairs) = MaxHeaderLines
    /\ hdr.code = 404
    /\ <<"a">> \in DOMAIN hdr.headers
    /\ hdr.headers[<<"a">>] = <<"1", ";", " ", "2">>

\* C16: ResponseBody::header(name) returns, for every letter case of
\* name, the join with "; " of the values of all header lines whose name
\* equals name in any letter case.
C16_HeaderCaseInsensitive ==
    (hdr.pc = "done" /\ hdr.found # "unasked") =>
        hdr.found = IF ValuesOfAnyCase(hdr.pairs, hdr.query) = <<>>
                    THEN "None"
                    ELSE Joined(ValuesOfAnyCase(hdr.pairs, hdr.query))

\* C17: when the native response of the Unix backend carries several
\* values for one header name, the header mapping of the received
\* response holds for that name all the values joined with "; ".
C17_UnixHeadersJoined ==
    unx.body = "received" =>
        \A i \in 1..Len(unx.native_headers) :
           LET name == unx.native_headers[i][1] IN
             /\ name \in DOMAIN unx.headers
             /\ unx.headers[name] =
                  Joined([k \in 1..Len(ValuesOf(unx.native_headers, name)) |->
                            FromUtf8Lossy(ValuesOf(unx.native_headers,
                                                   name)[k])])

\* the kinds the listed WinHTTP codes may map to
ListedKinds ==
    {"NotConnected", "ConnectionAborted", "TimedOut", "OutOfMemory",
     "InvalidInput", "InvalidData", "NotFound", "Other"}

\* C18: the mapping never panics; the timeout code maps to TimedOut, every
\* listed code to one of ListedKinds, and every code that is not listed
\* to Other with the numeric code retrievable from the error.
C18_ErrorMappingTotal ==
    err.pc = "resolved" =>
        /\ ~err.panicked
        /\ err.code = ERROR_WINHTTP_TIMEOUT => err.kind = "TimedOut"
        /\ err.code \in ListedCodes => err.kind \in ListedKinds
        /\ err.code \notin ListedCodes =>
             /\ err.kind = "Other"
             /\ err.raw_os_error = <<err.code>>

\* a status callback that carries REQUEST_ERROR with operation-cancelled
CancelledCallback(r) ==
    r.cb.ev = "REQUEST_ERROR" /\ r.cb.code = "OPERATION_CANCELLED"

\* C19: the status callback of a cancelled operation leaves the context's
\* status, stored error, byte count, headers and channel as they were, and
\* a poll returns the callback's error only if a callback stored one.
C19_CancelledSwallowed ==
    /\ [][(CancelledCallback(res) /\ res'.cb.ev = "none") =>
            /\ res'.status = res.status
            /\ res'.io_error = res.io_error
            /\ res'.buf_size = res.buf_size
            /\ res'.raw_headers = res.raw_headers
            /\ res'.has_completed = res.has_completed
            /\ res'.channel = res.channel]_vars
    /\ [](res.err_seen => res.err_stored)

\* the callback of a cancelled read operation has run: nothing is stored,
\* nothing is queued and the task stays parked
C19_Witness ==
    /\ res.cancelled /\ res.cb.ev = "none"
    /\ res.ops = <<>> /\ res.channel = <<>>
    /\ ~res.err_stored /\ res.io_error = "none"
    /\ res.pc = "idle" /\ res.last = "Pending"

\* C21: when poll_read of the macOS response returns Ok(0), every byte it
\* has pulled from the native stream into the transfer buffer has been
\* returned to the caller.
C21_MacNoByteDropped ==
    mrs.last = "Eof" => mrs.out = Payload(mrs.native_pos)

\* C22: when a response body of N bytes, N larger than the transfer
\* buffer, has been read to the end and every native read but the last
\* filled the buffer it was given, the native reads that delivered data
\* number ceil(N / BUF_SIZE) and the caller has received the N bytes.
C22_RefillCycles ==
    (/\ res.eof_seen /\ res.native_end
     /\ res.native_pos > BUF_SIZE
     /\ ~res.after_partial)
    => /\ res.refills = (res.native_pos + BUF_SIZE - 1) \div BUF_SIZE
       /\ res.out = Payload(res.native_pos)

\* a body of MaxPayload bytes was read to the end in full refills
C22_Witness ==
    /\ res.eof_seen /\ res.native_end /\ ~res.after_partial
    /\ res.native_pos = MaxPayload /\ MaxPayload > BUF_SIZE
    /\ res.refills = (MaxPayload + BUF_SIZE - 1) \div BUF_SIZE
    /\ res.out = Payload(MaxPayload)

\* C23: while the Client lives, an entry of the connection cache is never
\* removed or replaced, no native connect call is made for a hostname
\* that has an entry, and a caller that asks for such a hostname receives
\* the entry's handle.
C23_CacheNeverEvicts ==
    [][\A host \in Hosts :
         (cli.connections[host] # 0 /\ cli'.alive) =>
            /\ cli'.connections[host] = cli.connections[host]
            /\ cli'.calls[host] = cli.calls[host]
            /\ \A c \in Callers :
                 ( /\ cli.callers[c].host = host
                   /\ cli.callers[c].conn = 0
                   /\ cli'.callers[c].conn # 0 )
                 => cli'.callers[c].conn = cli.connections[host]]_vars

\* a second caller has been given the cached handle of a hostname, with
\* the one connect call the first caller made
C23_Witness ==
    \E host \in Hosts, c1, c2 \in Callers :
        /\ c1 # c2 /\ cli.alive
        /\ cli.connections[host] # 0
        /\ cli.calls[host] = 1 /\ cli.fails[host] = 0
        /\ cli.callers[c1].host = host /\ cli.callers[c2].host = host
        /\ cli.callers[c1].conn = cli.connections[host]
        /\ cli.callers[c2].conn = cli.connections[host]
        /\ cli.strong[cli.connections[host]] >= 3

\* C24: a native connect call that fails makes its caller fail, changes
\* no cache entry, and leaves the hostname without an entry, so that a
\* later lookup of it misses and goes on to connect.
C24_ConnectFailureLeavesCache ==
    /\ [][\A host \in Hosts :
            cli'.fails[host] > cli.fails[host] =>
               /\ cli'.connections = cli.connections
               /\ cli'.connections[host] = 0
               /\ \A c \in Callers :
                    (cli.callers[c].pc = "connecting"
                       /\ cli'.callers[c].pc # "connecting")
                    => cli'.callers[c].pc = "failed"]_vars
    /\ [][\A c \in Callers :
            ( /\ cli.callers[c].pc = "locked"
              /\ cli'.callers[c].pc # "locked"
              /\ cli.connections[cli.callers[c].host] = 0 )
            => cli'.callers[c].pc = "connecting"]_vars

\* after a failed connect call for a hostname a second call was made for
\* it and succeeded
C24_Witness ==
    \E host \in Hosts, c1, c2 \in Callers :
        /\ cli.fails[host] = 1 /\ cli.calls[host] = 2
        /\ cli.callers[c1].host = host /\ cli.callers[c1].pc = "failed"
        /\ cli.callers[c1].conn = 0
        /\ cli.callers[c2].host = host
        /\ cli.callers[c2].conn = cli.connections[host]
        /\ cli.connections[host] # 0

\* the positions of the request's log that hold entry e
LogPositions(e) == {i \in 1..Len(req.log) : req.log[i] = e}

\* C25: the first native call of a request is the send-request call and
\* it is made once; each native write directly follows the send-complete
\* or a write-complete event; the receive-response call is made at most
\* once, after the body source returned Ok(0); and the future resolves to
\* a Response only after one receive-response call and the
\* headers-available event.
C25_ProtocolOrder ==
    /\ req.log # <<>> => LogPositions("send") = {1}
    /\ \A i \in LogPositions("write") :
         i > 1 /\ req.log[i - 1] \in {"SENDREQUEST_COMPLETE", "WRITE_COMPLETE"}
    /\ Cardinality(LogPositions("receive")) <= 1
    /\ \A i \in LogPositions("receive") :
         \E j \in LogPositions("BodyEnd") : j < i
    /\ req.resolved = "Response" =>
         \E i \in LogPositions("receive"), j \in LogPositions("HEADERS_AVAILABLE") :
            i < j

\* a request with a body of several writes has resolved to a Response
C25_Witness ==
    /\ req.resolved = "Response"
    /\ Cardinality(LogPositions("write")) >= 2
    /\ LogPositions("receive") # {}
    /\ req.written = Payload(req.body_len)

\* C27: a request resolves to a Response exactly when it produced one,
\* after observing HeadersReceived and installing the Response's context
\* on the handle; the Response holds the request's handle and connection,
\* the raw headers the callback captured, and an otherwise default
\* context (status Init, no waker, no error, byte count 0).
C27_ResponseConstruction ==
    /\ req.resolved = "Response" <=> req.response # <<>>
    /\ \A i \in 1..Len(req.response) :
         /\ req.handle_context = "Response.ctx"
         /\ "HEADERS_AVAILABLE" \in {req.log[j] : j \in 1..Len(req.log)}
         /\ req.response[i].h_request = "Request.h_request"
         /\ req.response[i]._connection = "Request.connection"
         /\ req.response[i].ctx.raw_headers = "received"
         /\ req.response[i].ctx.io_error = "none"
         /\ req.response[i].ctx.status = "Init"
         /\ ~req.response[i].ctx.waker
         /\ req.response[i].ctx.buf_size = 0
         /\ req.response[i].read_size = 0
    /\ req.resolved \notin {"none", "Response"} =>
         req.handle_context \in {"none", "Request.ctx"}

\* a request has resolved to a Response whose context is registered
C27_Witness ==
    /\ req.resolved = "Response"
    /\ req.response # <<>>
    /\ req.handle_context = "Response.ctx"
    /\ req.response[1].ctx.raw_headers = "received"

\* the query-data-available and read-data calls on the response's handle
\* that have not completed: those the native layer still holds and the one
\* whose completion callback is running
ReadSideOutstanding ==
    Len(res.ops) + (IF res.cb.ev \in {"DATA_AVAILABLE", "READ_COMPLETE",
                                      "REQUEST_ERROR"}
                    THEN 1 ELSE 0)

\* a read-data call has been issued and poll_read cannot yet have seen it
\* complete: the native layer holds it, or its callback has not yet
\* written the byte count to the context
ReadUnobserved ==
    \/ \E i \in 1..Len(res.ops) : res.ops[i].op = "read"
    \/ /\ res.cb.ev = "READ_COMPLETE"
       /\ res.rev = "channel" => res.cb.step = 1

\* C26: at most one native read-side operation of a response is
\* outstanding at any time, and while a read-data call is outstanding (from
\* its issue until its completion is published) no poll_read returns
\* bytes of the transfer buffer or moves its read cursor.
C26_OneReadSideOpAtATime ==
    /\ [](ReadSideOutstanding <= 1)
    /\ [][ReadUnobserved /\ ReadUnobserved' =>
            res'.out = res.out /\ res'.read_size = res.read_size]_vars

\* a poll_read runs while a read-data call is outstanding, after earlier
\* bytes have been returned to the caller
C26_Witness ==
    /\ \E i \in 1..Len(res.ops) : res.ops[i].op = "read"
    /\ res.pc \in {"match", "recv"}
    /\ res.out # <<>>

\* C28: every run of the status callback on a response's context that
\* holds a waker invokes that waker exactly once, whatever the event
\* (RESPONSE_RECEIVED and a REQUEST_ERROR carrying
\* ERROR_WINHTTP_OPERATION_CANCELLED included).
C28_WakeOncePerCallback ==
    /\ [](res.wakes <= 1)
    /\ [][res.cb.ev # "none" /\ res'.cb.ev = "none" /\ res.waker =>
            res'.wakes = 1]_vars

\* C29: after a poll_read that returned Pending, the waker held in the
\* context is the waker that was passed to that poll.
C29_WakerIsMostRecent ==
    res.pc = "idle" /\ res.last = "Pending" => res.stored = res.cx

\* the native calls a failure record may name
NativeCalls == {"send", "write", "receive", "set_context", "query", "read"}

\* the poll that made the failing call returned Ready(Err(e)), e being the
\* mapping of the last-error code, and the failing call was its last
FatalToPoll(f, calls, returned_err) ==
    /\ returned_err
    /\ f.op \in NativeCalls
    /\ f.err = resolve_io_error_from_error_code(f.code)
    /\ f.at = Len(calls)
    /\ calls[f.at] = f.op

\* C30: when a native call made by a poll of the request or of the
\* response returns failure, that poll returns Ready(Err(e)) with e the
\* error mapper's image of the last-error code, and makes no native call
\* after the failing one.
C30_SyncFailureFatal ==
    /\ \A i \in 1..Len(req.failed) :
         FatalToPoll(req.failed[i], req.calls,
                     req.pc = "idle" /\ req.resolved = "Err")
    /\ \A i \in 1..Len(res.failed) :
         FatalToPoll(res.failed[i], res.calls,
                     res.pc = "idle" /\ res.last = "Err")

\* a response was produced, bytes of it were read, and then WinHttpReadData
\* returned failure with a code the mapper turns into TimedOut
C30_Witness ==
    /\ req.resolved = "Response"
    /\ res.out # <<>>
    /\ res.failed # <<>>
    /\ res.failed[1].op = "read"
    /\ res.failed[1].err = "TimedOut"

\* C31: when the status callback runs for HEADERS_AVAILABLE, a first
\* header query that fails with ERROR_INSUFFICIENT_BUFFER followed by a
\* second that succeeds deposits HeadersReceived with the header text and
\* no error; any other first failure, or a failure of the second query,
\* deposits Error with an error and no header text; either way the stored
\* waker is invoked.
C31_HeaderQueryTwoPass ==
    [][req.cb.ev = "HEADERS_AVAILABLE" /\ req'.cb.ev = "none" =>
         /\ IF req.cb.q1 = "ERROR_INSUFFICIENT_BUFFER" /\ req.cb.q2 = "ok"
            THEN /\ req'.status = "HeadersReceived"
                 /\ req'.raw_headers = "received"
                 /\ req'.io_error = req.io_error
                 /\ req'.err_stored = req.err_stored
            ELSE /\ req'.status = "Error"
                 /\ req'.io_error # "none"
                 /\ req'.raw_headers = req.raw_headers
         /\ req.waker => req'.woken /\ req'.wakes = 1]_vars

\* the callback has deposited HeadersReceived after a first query that
\* failed with ERROR_INSUFFICIENT_BUFFER
C31_Witness ==
    /\ req.status = "HeadersReceived"
    /\ req.raw_headers = "received"
    /\ req.cb.ev = "none"
    /\ req.log # <<>> /\ req.log[Len(req.log)] = "HEADERS_AVAILABLE"

\* C32: a poll of the macOS request that returns Pending without having
\* changed anything (no status transition, no byte moved into or out of
\* the transfer buffer) does not invoke its own waker.
C32_NoBusyPolling ==
    [][/\ mac.request = "alive" /\ mac'.request = "alive"
       /\ mac.woken /\ mac' # mac
       /\ mac'.status = mac.status
       /\ mac'.buf = mac.buf
       /\ mac'.body_pos = mac.body_pos
       /\ mac'.accepted = mac.accepted
       => ~mac'.woken]_vars

\* the threads that were spawned to run the HTTP run loop
SpawnedThreads == {c \in Threads : rl.thread[c] # "none"}

\* C33: when several threads call get_or_spawn_http_thread while no
\* run-loop thread exists, one thread is spawned, and every caller that
\* has returned holds the same non-null run loop, whose thread is running.
C33_RunLoopSingleton ==
    /\ Cardinality(SpawnedThreads) <= 1
    /\ \A c \in Threads :
         rl.pc[c] = "done" =>
           /\ rl.result[c] # 0
           /\ rl.thread[rl.result[c]] \in {"published", "running"}
           /\ \A d \in Threads : rl.pc[d] = "done" =>
                                   rl.result[d] = rl.result[c]

C36_StreamClosedOnce ==
    mrs.rev = "response" /\ mrs.last = "Eof" => mrs.closes = 1

(* ------------------------------ C37 ------------------------------------ *)

\* C37: once the body source of a Windows request has returned Pending, the
\* request goes on: the polls that follow the wake-up of the body source
\* lead to the whole body being written (the request reaches BodySent) or
\* to the request being resolved.
C37_BodyPendingResumes ==
    req.body_stalled ~> (req.body_sent \/ req.resolved # "none")

(* ------------------------------ C38 ------------------------------------ *)

\* C38: the unreachable!() arms of the Windows state machines are never
\* taken.  A poll of a Request never observes DataAvailable or DataWritten
\* and never panics; a poll_read of a Response never observes
\* WriteCompleted, BodySent or HeadersReceived, never receives an event
\* other than DataAvailable, DataWritten and Error from its channel, and
\* never panics.
C38_UnreachableArms ==
    /\ req.local \notin {"DataAvailable", "DataWritten"}
    /\ req.resolved # "Panic"
    /\ res.local \notin {"WriteCompleted", "BodySent", "HeadersReceived"}
    /\ \A i \in DOMAIN res.channel :
          res.channel[i] \in {"DataAvailable", "DataWritten", "Error"}
    /\ res.last # "Panic"

\* a request has sent its whole body and resolved to a response, and the
\* response has been read to its end
C38_Witness ==
    /\ req.body_sent /\ req.written # <<>>
    /\ req.resolved = "Response"
    /\ res.out # <<>> /\ res.last = "Eof"

(* ------------------------------ C39 ------------------------------------ *)

\* C39: a poll of the macOS request in its SendingBody phase never panics,
\* whatever CFWriteStreamWrite returns.
C39_SendingBodyNeverPanics ==
    mac.result # "Panic"

(* ------------------------------ C40 ------------------------------------ *)

\* C40: recv returns for every header text.  The status code it reports is
\* 0 when the text is empty or its first line has no second token or one
\* that is not a u16 number, and the number on the first line otherwise;
\* the mapping holds exactly the fields of the lines that contain ": ",
\* as if the other lines were not there.
C40_MalformedHeaderText ==
    /\ hdr.pc = "done" =>
          /\ hdr.code = hdr.status_code
          /\ hdr.raw_headers = <<>> => hdr.code = 0 /\ hdr.headers = NoHeaders
          /\ DOMAIN hdr.headers =
                {hdr.pairs[i][1] : i \in 1..Len(hdr.pairs)}
          /\ \A name \in DOMAIN hdr.headers :
                hdr.headers[name] = Joined(ValuesOf(hdr.pairs, name))
    /\ hdr.pc \in {"start", "lines", "done"}

\* a first line without a number, and a line without ": " between two
\* lines of the same name: code 0 and the two values joined
C40_Witness ==
    /\ hdr.pc = "done"
    /\ hdr.raw_headers =
           <<"H", "/", "1", " ", "O", "K", "\n", "a", ":", " ",
           "1", "\n", "b", ":", "2", "\n", "a", ":", " ", "2",
           "\n", "\n">>
    /\ hdr.code = 0
    /\ DOMAIN hdr.headers = {<<"a">>}
    /\ hdr.headers[<<"a">>] = <<"1", ";", " ", "2">>

====
